---- MODULE Spec2Model ----
(***************************************************************************)
(* Message ingestion and event-classification pipeline of the IoT black    *)
(* box backend: the MQTT transport client, the three message handlers,     *)
(* the severity classifier, the transactional persistence layer, startup   *)
(* and graceful shutdown, and the event update API.                        *)
(*                                                                         *)
(* Every `await` of the TypeScript code is a scheduling point: an action   *)
(* of this module is the code that runs between two awaits.                *)
(***************************************************************************)
EXTENDS Integers, Sequences, FiniteSets, TLC

\* ------------------------------------------------------------------ bounds
MaxMsgs == 2
MaxClients == 2
\* the attempts count passed to markCrashNotificationsSent
MaxAttempts == 1

Msgs == 1..MaxMsgs
ClientIds == 1..MaxClients

\* JavaScript undefined / SQL NULL of a numeric field (outside every range)
NULL == 0 - 1000

\* ------------------------------------------------------------ the registry
\* rows of table devices present from the start; "ghost" is never registered
RegisteredIds == {"d1", "d2"}
Owner(d) == IF d = "d1" THEN "u1" ELSE "u2"

\* MessageType
Topics == {"telemetry", "crash", "panic"}

VARIABLES
  devices,        \* table devices: device_id -> row
  crash_events,   \* table crash_events (committed rows)
  panic_events,   \* table panic_events (committed rows)
  now,            \* the clock read by new Date()
  pool,           \* module variable pool of config/database: "none", "open", "ending", "closed"
  checkedOut,     \* pool clients currently checked out
  listeners,      \* message types with a listener on the mqttClient emitter
  client,         \* MQTTClient.client: 0 is null, else the id of the broker client
  sess,           \* every broker client created by connect(): state, subscriptions, position of its connect()
  reconnectTimer, \* MQTTClient.reconnectTimer: "null", "pending", "fired"
  mainPc,         \* position of main()
  shutPc,         \* position of gracefulShutdown()
  exited,         \* process.exit has run
  msg,            \* msg[i]: the i-th message received, as enriched by handleMessage
  hpc,            \* hpc[i]: position of the handler of message i
  loc,            \* loc[i]: locals of the handler of message i
  tx,             \* tx[i]: the transaction of the handler of message i
  out,            \* out[i]: how the handler of message i ended
  sigInflight,    \* handlers that were in flight when the shutdown signal arrived
  api,            \* the last response of PATCH /crashes/:eventId
  ret,            \* the last call of an exported service function: its arguments and what it returned
  shut2           \* a second run of gracefulShutdown(): its position; and the calls of
                  \* client.end() and pool.end() made so far by all runs

vars == <<devices, crash_events, panic_events, now, pool, checkedOut, listeners,
          client, sess, reconnectTimer, mainPc, shutPc, exited,
          msg, hpc, loc, tx, out, sigInflight, api, ret, shut2>>

dbVars == <<devices, crash_events, panic_events>>
connVars == <<client, sess, reconnectTimer>>
handlerVars == <<msg, hpc, loc, tx, out>>

\* ------------------------------------------------------- message payloads
\* One published message: its topic (class and device id segment) and its
\* JSON body.  impactForce is in tenths of G, every other number in its unit.
\* bodyTimestamp is the timestamp of the body, read from the device's clock
\* (0: before every reading of the server's clock; NULL: the body has none).
\* the topic a device publishes a message of class cls on, as its segments:
\* v1/{deviceId}/telemetry, v1/{deviceId}/events/crash, v1/{deviceId}/events/panic
TopicOf(cls, topicDev) ==
  IF cls \in {"crash", "panic"} THEN <<"v1", topicDev, "events", cls>>
  ELSE <<"v1", topicDev, cls>>

Sample(cls, topicDev, bodyDev, lat, battery, force, tilt, speedAvg, postAccel, trig) ==
  [cls |-> cls, topicDev |-> topicDev, topic |-> TopicOf(cls, topicDev), bodyDev |-> bodyDev,
   bodyTimestamp |-> 0,
   lat |-> lat, lon |-> 77, speed |-> 40, heading |-> 90,
   battery_level |-> battery,
   impactForce |-> force, tiltAngle |-> tilt, speedAvg |-> speedAvg,
   postAccel |-> postAccel, triggeredBy |-> trig, json |-> TRUE]

TelemetrySamples ==
  { Sample("telemetry", "d1", "d1", 12, 80, NULL, NULL, NULL, FALSE, "none"),
    Sample("telemetry", "d1", "d1", 12, NULL, NULL, NULL, NULL, FALSE, "none"),
    Sample("telemetry", "d1", "d1", 95, 80, NULL, NULL, NULL, FALSE, "none"),
    Sample("telemetry", "ghost", "ghost", 12, 80, NULL, NULL, NULL, FALSE, "none") }

CrashSamples ==
  { Sample("crash", "d1", "d1", 12, NULL, 92, 20, 60, TRUE, "none"),
    Sample("crash", "d2", "d2", 12, NULL, 15, 10, 20, TRUE, "none"),
    Sample("crash", "ghost", "ghost", 12, NULL, 92, 20, 60, TRUE, "none"),
    Sample("crash", "d1", "d1", 12, NULL, 92, 20, 60, FALSE, "none"),
    Sample("crash", "d1", "d2", 12, NULL, 65, 55, 60, TRUE, "none") }

PanicSamples ==
  { Sample("panic", "d1", "d1", 12, NULL, NULL, NULL, NULL, FALSE, "manual"),
    Sample("panic", "d2", "d2", 12, NULL, NULL, NULL, NULL, FALSE, "auto"),
    Sample("panic", "ghost", "ghost", 12, NULL, NULL, NULL, NULL, FALSE, "manual"),
    Sample("panic", "d1", "d1", 12, NULL, NULL, NULL, NULL, FALSE, "sos") }

Samples == TelemetrySamples \cup CrashSamples \cup PanicSamples

\* what the receive callback cannot parse: a payload that is not JSON, and a
\* topic (v1/d1/status) that names none of the three message classes
TransportSamples ==
  { [Sample("crash", "d1", "d1", 12, NULL, 92, 20, 60, TRUE, "none") EXCEPT !.json = FALSE],
    [Sample("telemetry", "d1", "d1", 12, 80, NULL, NULL, NULL, FALSE, "none")
       EXCEPT !.cls = "status", !.topic = TopicOf("status", "d1")] }

\* messages of registered devices, messages of devices whose ids are words
\* of the topic patterns, and a crash message whose body has no timestamp
DispatchSamples ==
  { Sample("crash", "d1", "d1", 12, NULL, 92, 20, 60, TRUE, "none"),
    Sample("panic", "d1", "d1", 12, NULL, NULL, NULL, NULL, FALSE, "manual"),
    Sample("telemetry", "d1", "d1", 12, 80, NULL, NULL, NULL, FALSE, "none"),
    Sample("crash", "telemetry", "telemetry", 12, NULL, 92, 20, 60, TRUE, "none"),
    Sample("telemetry", "crash", "crash", 12, 80, NULL, NULL, NULL, FALSE, "none"),
    Sample("panic", "events", "events", 12, NULL, NULL, NULL, NULL, FALSE, "manual"),
    [Sample("crash", "d2", "d2", 12, NULL, 92, 20, 60, TRUE, "none")
       EXCEPT !.bodyTimestamp = NULL] }

\* valid telemetry messages of one device that differ in their battery level
ConcurrentSamples ==
  { Sample("telemetry", "d1", "d1", 12, 20, NULL, NULL, NULL, FALSE, "none"),
    Sample("telemetry", "d1", "d1", 12, 80, NULL, NULL, NULL, FALSE, "none"),
    Sample("telemetry", "d1", "d1", 12, NULL, NULL, NULL, NULL, FALSE, "none"),
    Sample("telemetry", "d2", "d2", 12, 50, NULL, NULL, NULL, FALSE, "none") }

\* telemetry bodies of device d around the bounds of every validated field
TelemetryBody(d, lat, lon, speed, heading, battery) ==
  [Sample("telemetry", d, d, lat, battery, NULL, NULL, NULL, FALSE, "none")
     EXCEPT !.lon = lon, !.speed = speed, !.heading = heading]

TelemetryGrid ==
  {TelemetryBody("d1", lat, lon, speed, heading, battery) :
     lat \in {0 - 91, 0 - 90, 90, 95}, lon \in {0 - 181, 180}, speed \in {0 - 1, 0},
     heading \in {0, 361}, battery \in {NULL, 100, 101}}
  \cup {TelemetryBody("d1", NULL, 77, 40, 90, 80), TelemetryBody("d1", 12, NULL, 40, 90, 80),
        TelemetryBody("d1", 12, 77, NULL, 90, 80), TelemetryBody("d1", 12, 77, 40, NULL, 80),
        TelemetryBody("d1", 12, 181, 40, 0 - 1, 0 - 1)}

NoMsg == [cls |-> "none", deviceId |-> "none", topic |-> <<>>, bodyDev |-> "none",
          bodyTimestamp |-> NULL, timestamp |-> 0,
          lat |-> NULL, lon |-> NULL, speed |-> NULL, heading |-> NULL,
          battery_level |-> NULL, impactForce |-> NULL, tiltAngle |-> NULL,
          speedAvg |-> NULL, postAccel |-> FALSE, triggeredBy |-> "none",
          json |-> TRUE, afterFailure |-> FALSE]

\* ------------------------------------------------------------ validators
InRange(x, lo, hi) == x # NULL /\ x >= lo /\ x <= hi
Optional(x, lo, hi) == x = NULL \/ (x >= lo /\ x <= hi)

\* deviceId: z.string() and timestamp: z.string().datetime().or(z.date());
\* handleMessage sets both before the schema sees the message
HasIdAndTimestamp(m) == m.deviceId # "undefined" /\ m.timestamp # NULL

\* a telemetry schema without the bounds of the latitude
telemetrySchemaAnyLat(m) ==
  /\ HasIdAndTimestamp(m)
  /\ m.lat # NULL
  /\ InRange(m.lon, 0 - 180, 180)
  /\ m.speed # NULL /\ m.speed >= 0
  /\ InRange(m.heading, 0, 360)
  /\ Optional(m.battery_level, 0, 100)

\* telemetryMessageSchema.parse succeeds
telemetryMessageSchema(m) ==
  /\ HasIdAndTimestamp(m)
  /\ InRange(m.lat, 0 - 90, 90)
  /\ InRange(m.lon, 0 - 180, 180)
  /\ m.speed # NULL /\ m.speed >= 0
  /\ InRange(m.heading, 0, 360)
  /\ Optional(m.battery_level, 0, 100)

\* a crash schema whose postEventData is optional
crashSchemaPartial(m) ==
  /\ HasIdAndTimestamp(m)
  /\ InRange(m.lat, 0 - 90, 90)
  /\ InRange(m.lon, 0 - 180, 180)
  /\ m.impactForce # NULL /\ m.impactForce >= 0
  /\ InRange(m.tiltAngle, 0, 180)
  /\ m.speedAvg # NULL /\ m.speedAvg >= 0
  /\ InRange(m.heading, 0, 360)

\* crashEventMessageSchema.parse succeeds
crashEventMessageSchema(m) ==
  /\ HasIdAndTimestamp(m)
  /\ InRange(m.lat, 0 - 90, 90)
  /\ InRange(m.lon, 0 - 180, 180)
  /\ m.impactForce # NULL /\ m.impactForce >= 0
  /\ InRange(m.tiltAngle, 0, 180)
  /\ m.speedAvg # NULL /\ m.speedAvg >= 0
  /\ InRange(m.heading, 0, 360)
  /\ m.postAccel

\* panicEventMessageSchema.parse succeeds
panicEventMessageSchema(m) ==
  /\ HasIdAndTimestamp(m)
  /\ InRange(m.lat, 0 - 90, 90)
  /\ InRange(m.lon, 0 - 180, 180)
  /\ m.triggeredBy \in {"manual", "auto"}

SchemaAccepts(m) ==
  CASE m.cls = "telemetry" -> telemetryMessageSchema(m)
    [] m.cls = "crash"     -> crashEventMessageSchema(m)
    [] OTHER               -> panicEventMessageSchema(m)

\* ------------------------------------------------------------- classifier
\* JavaScript truthiness of an optional number: undefined and 0 are falsy
Truthy(x) == x # NULL /\ x # 0

\* a cascade that takes a tilt beyond 90 degrees out of the critical tier
classifySeverityTiltBand(impactForce, tiltAngle) ==
  IF (Truthy(impactForce) /\ impactForce > 80)
       \/ (Truthy(tiltAngle) /\ tiltAngle > 70 /\ tiltAngle <= 90)
    THEN "critical"
  ELSE IF (Truthy(impactForce) /\ impactForce > 50) \/ (Truthy(tiltAngle) /\ tiltAngle > 45)
    THEN "high"
  ELSE IF (Truthy(impactForce) /\ impactForce > 30) \/ (Truthy(tiltAngle) /\ tiltAngle > 30)
    THEN "medium"
  ELSE "low"

\* a cascade whose tiers need both inputs over their thresholds
classifySeverityBothInputs(impactForce, tiltAngle) ==
  IF (Truthy(impactForce) /\ impactForce > 80) /\ (Truthy(tiltAngle) /\ tiltAngle > 70)
    THEN "critical"
  ELSE IF (Truthy(impactForce) /\ impactForce > 50) /\ (Truthy(tiltAngle) /\ tiltAngle > 45)
    THEN "high"
  ELSE IF (Truthy(impactForce) /\ impactForce > 30) /\ (Truthy(tiltAngle) /\ tiltAngle > 30)
    THEN "medium"
  ELSE "low"

\* a cascade with inclusive thresholds
classifySeverityInclusive(impactForce, tiltAngle) ==
  IF (Truthy(impactForce) /\ impactForce >= 80) \/ (Truthy(tiltAngle) /\ tiltAngle >= 70)
    THEN "critical"
  ELSE IF (Truthy(impactForce) /\ impactForce >= 50) \/ (Truthy(tiltAngle) /\ tiltAngle >= 45)
    THEN "high"
  ELSE IF (Truthy(impactForce) /\ impactForce >= 30) \/ (Truthy(tiltAngle) /\ tiltAngle >= 30)
    THEN "medium"
  ELSE "low"

\* impactForce in tenths of G: the thresholds 8, 5, 3 are 80, 50, 30
classifyCrashSeverity(impactForce, tiltAngle) ==
  IF (Truthy(impactForce) /\ impactForce > 80) \/ (Truthy(tiltAngle) /\ tiltAngle > 70)
    THEN "critical"
  ELSE IF (Truthy(impactForce) /\ impactForce > 50) \/ (Truthy(tiltAngle) /\ tiltAngle > 45)
    THEN "high"
  ELSE IF (Truthy(impactForce) /\ impactForce > 30) \/ (Truthy(tiltAngle) /\ tiltAngle > 30)
    THEN "medium"
  ELSE "low"

Min(a, b) == IF a <= b THEN a ELSE b

\* a sum that is capped at 100 only, not term by term
injuryProbabilityUncappedTerms(impactForce, tiltAngle, speed) ==
  LET a == IF Truthy(impactForce) THEN 12 * impactForce ELSE 0
      b == IF Truthy(tiltAngle) THEN 10 * tiltAngle ELSE 0
      c == IF Truthy(speed) THEN 9 * speed ELSE 0
  IN Min((a + b + c + 15) \div 30, 100)

\* Math.floor in the place of Math.round
injuryProbabilityFloor(impactForce, tiltAngle, speed) ==
  LET a == IF Truthy(impactForce) THEN Min(12 * impactForce, 1200) ELSE 0
      b == IF Truthy(tiltAngle) THEN Min(10 * tiltAngle, 900) ELSE 0
      c == IF Truthy(speed) THEN Min(9 * speed, 900) ELSE 0
  IN Min((a + b + c) \div 30, 100)

\* The three capped terms in thirtieths of a point: (f/10)*40 = 12f'/30 with
\* f' = 10f, (t/90)*30 = 10t/30, (s/100)*30 = 9s/30; Math.round rounds half up.
calculateInjuryProbability(impactForce, tiltAngle, speed) ==
  LET a == IF Truthy(impactForce) THEN Min(12 * impactForce, 1200) ELSE 0
      b == IF Truthy(tiltAngle) THEN Min(10 * tiltAngle, 900) ELSE 0
      c == IF Truthy(speed) THEN Min(9 * speed, 900) ELSE 0
  IN Min((a + b + c + 15) \div 30, 100)

\* ------------------------------------------------------- transport client
\* topic.endsWith('/' + last): the last segment, after at least one other
EndsWith(topic, last) == Len(topic) >= 2 /\ topic[Len(topic)] = last

\* topic.includes('/' + a + '/' + b): segment a somewhere after the first,
\* followed by a segment that starts with b (segments here are whole words)
Includes(topic, a, b) ==
  \E k \in 2..(Len(topic) - 1) : topic[k] = a /\ topic[k + 1] = b

\* a classification that looks for the word telemetry anywhere in the topic
getMessageTypeAnywhere(topic) ==
  IF \E k \in 1..Len(topic) : topic[k] = "telemetry" THEN "telemetry"
  ELSE IF Includes(topic, "events", "crash") THEN "crash"
  ELSE IF Includes(topic, "events", "panic") THEN "panic"
  ELSE "throw"

\* getMessageType(topic): the message class, or the Error it throws
getMessageType(topic) ==
  IF EndsWith(topic, "telemetry") THEN "telemetry"
  ELSE IF Includes(topic, "events", "crash") THEN "crash"
  ELSE IF Includes(topic, "events", "panic") THEN "panic"
  ELSE "throw"

\* handleMessage: the device id is the topic's second segment and overwrites
\* the in-body device id; timestamp is overwritten by the time of receipt;
\* the topic is attached.  cls is the message type the message is emitted as
\* (of a topic that names none: the class segment of the topic).
\* bodyDev and bodyTimestamp keep the overwritten in-body values (they are
\* not part of the enriched message; no code reads them).
enrichedMessage(s, t, afterFailure) ==
  [cls |-> IF getMessageType(s.topic) = "throw" THEN s.cls ELSE getMessageType(s.topic),
   deviceId |-> s.topic[2], topic |-> s.topic,
   bodyDev |-> s.bodyDev, bodyTimestamp |-> s.bodyTimestamp, timestamp |-> t,
   lat |-> s.lat, lon |-> s.lon, speed |-> s.speed, heading |-> s.heading,
   battery_level |-> s.battery_level, impactForce |-> s.impactForce,
   tiltAngle |-> s.tiltAngle, speedAvg |-> s.speedAvg, postAccel |-> s.postAccel,
   triggeredBy |-> s.triggeredBy, json |-> s.json, afterFailure |-> afterFailure]

\* ----------------------------------------------------------- persistence
\* the transaction of a handler: state of its pool client, what it has
\* written, the error that ended it, and rel, the number of times
\* client.release() has run in it
NoTx == [state |-> "none", ins |-> FALSE, upd |-> FALSE, cause |-> "none", thrown |-> "none",
         rel |-> 0]
NoLoc == [user_id |-> "none", stamp |-> 0, severity |-> "none", injury_probability |-> NULL]
NoOut == [outcome |-> "none", error |-> "none", payload |-> 0, escaped |-> FALSE]

\* a handler that goes on although getDevice returned null
DeviceFoundAlways(dv, id) == TRUE

\* getDevice: SELECT * FROM devices WHERE device_id = $1, rows[0] || null
DeviceFound(dv, id) == id \in DOMAIN dv

\* device.user_id of the row getDevice returned
UserOf(dv, id) == IF id \in DOMAIN dv THEN dv[id].user_id ELSE "none"

\* the row INSERT INTO crash_events ... RETURNING * creates for handler i
CrashRow(i) ==
  [id |-> i, device_id |-> msg[i].deviceId, user_id |-> loc[i].user_id,
   event_timestamp |-> msg[i].timestamp,
   impact_force |-> msg[i].impactForce, tilt_angle |-> msg[i].tiltAngle,
   pre_event_speed_avg |-> msg[i].speedAvg,
   severity |-> loc[i].severity, injury_probability |-> loc[i].injury_probability,
   emergency_contacts_notified |-> FALSE, notification_attempts |-> 0,
   first_responder_contacted |-> FALSE, is_reviewed |-> FALSE, review_notes |-> "null",
   updated_at |-> loc[i].stamp]

\* the row INSERT INTO panic_events ... RETURNING * creates for handler i
PanicRow(i) ==
  [id |-> i, device_id |-> msg[i].deviceId, user_id |-> loc[i].user_id,
   event_timestamp |-> msg[i].timestamp,
   triggered_by |-> IF msg[i].triggeredBy = "manual" THEN "manual_button" ELSE "auto_detect",
   emergency_contacts_notified |-> FALSE, notification_attempts |-> 0,
   is_false_alarm |-> FALSE]

\* an UPDATE of devices without its WHERE clause
SetStatusEveryDevice(dv, id, status, lastSeen) ==
  [d \in DOMAIN dv |-> [dv[d] EXCEPT !.status = status, !.last_seen = lastSeen]]

\* an update that keeps a last_seen that is already stored
SetStatusKeepFirst(dv, id, status, lastSeen) ==
  IF id \in DOMAIN dv
    THEN [dv EXCEPT ![id].status = status,
                    ![id].last_seen = IF @ = 0 THEN lastSeen ELSE @]
    ELSE dv

\* UPDATE devices SET status = $1, last_seen = $2 WHERE device_id = $3
SetStatus(dv, id, status, lastSeen) ==
  IF id \in DOMAIN dv
    THEN [dv EXCEPT ![id].status = status, ![id].last_seen = lastSeen]
    ELSE dv

\* UPDATE devices SET last_seen = $1 WHERE device_id = $2
SetLastSeen(dv, id, lastSeen) ==
  IF id \in DOMAIN dv THEN [dv EXCEPT ![id].last_seen = lastSeen] ELSE dv

\* UPDATE devices SET battery_level = $1 WHERE device_id = $2
SetBattery(dv, id, level) ==
  IF id \in DOMAIN dv THEN [dv EXCEPT ![id].battery_level = level] ELSE dv

\* ------------------------------------------------------------------- Init
\* no request has been answered yet
NoResponse == [status |-> 0, eventId |-> 0, userId |-> "none",
               user |-> [userId |-> "none", id |-> "none"]]

\* the qos option subscribeToTopics passes for each topic pattern
subscribeQoS(t) == IF t = "telemetry" THEN 0 ELSE 2

\* the subscriptions of a client that subscribeToTopics has run through
AllSubscriptions == {<<t, subscribeQoS(t)>> : t \in Topics}

\* broker client k holds a subscription for the pattern of message class t
Subscribed(k, t) == \E q \in 0..2 : <<t, q>> \in sess[k].subs

\* MQTTClient.topics: the pattern of each message class, as its segments
TopicPattern(t) == TopicOf(t, "+")

\* the broker's match of a topic against a pattern: the same number of
\* segments, each equal or matched by the single-level wildcard
Matches(topic, pattern) ==
  /\ Len(topic) = Len(pattern)
  /\ \A k \in 1..Len(topic) : pattern[k] \in {"+", topic[k]}

\* the broker sends a message on this topic to client k
Receives(k, topic) ==
  \E t \in Topics : Subscribed(k, t) /\ Matches(topic, TopicPattern(t))

\* no service function has been called yet
NoCall == [fn |-> "none"]

\* no second signal has arrived, nothing has been ended
NoShut2 == [pc |-> "none", clientEnds |-> 0, poolEnds |-> 0]

NoSess == [state |-> "none", subs |-> {}, pc |-> "idle"]

Init ==
  /\ devices = [d \in RegisteredIds |->
                  [user_id |-> Owner(d), status |-> "offline", last_seen |-> 0,
                   battery_level |-> NULL]]
  /\ crash_events = {}
  /\ panic_events = {}
  /\ now = 1
  /\ pool = "none"
  /\ checkedOut = 0
  /\ listeners = {}
  /\ client = 0
  /\ sess = [k \in ClientIds |-> NoSess]
  /\ reconnectTimer = "null"
  /\ mainPc = "start"
  /\ shutPc = "none"
  /\ exited = FALSE
  /\ msg = [i \in Msgs |-> NoMsg]
  /\ hpc = [i \in Msgs |-> "idle"]
  /\ loc = [i \in Msgs |-> NoLoc]
  /\ tx = [i \in Msgs |-> NoTx]
  /\ out = [i \in Msgs |-> NoOut]
  /\ sigInflight = {}
  /\ api = NoResponse
  /\ ret = NoCall
  /\ shut2 = NoShut2

\* the state main() leaves when every startup step has succeeded: pool open,
\* broker client 1 connected and subscribed, handlers registered, server up
InitRunning ==
  /\ devices = [d \in RegisteredIds |->
                  [user_id |-> Owner(d), status |-> "offline", last_seen |-> 0,
                   battery_level |-> NULL]]
  /\ crash_events = {}
  /\ panic_events = {}
  /\ now = 1
  /\ pool = "open"
  /\ checkedOut = 0
  /\ listeners = Topics
  /\ client = 1
  /\ sess = [k \in ClientIds |->
               IF k = 1 THEN [state |-> "open", subs |-> AllSubscriptions, pc |-> "done"]
               ELSE NoSess]
  /\ reconnectTimer = "null"
  /\ mainPc = "running"
  /\ shutPc = "none"
  /\ exited = FALSE
  /\ msg = [i \in Msgs |-> NoMsg]
  /\ hpc = [i \in Msgs |-> "idle"]
  /\ loc = [i \in Msgs |-> NoLoc]
  /\ tx = [i \in Msgs |-> NoTx]
  /\ out = [i \in Msgs |-> NoOut]
  /\ sigInflight = {}
  /\ api = NoResponse
  /\ ret = NoCall
  /\ shut2 = NoShut2

\* numbers of events stored earlier: none, a few, more than a page holds
TableSizes == {0, 3, 101, 130}

\* the time of the n-th stored event; events of one table share timestamps and
\* are not stored in the order of their timestamps
EventTime(n) == 1 + ((7 * n) % 9)

\* the n-th crash event stored earlier
StoredCrash(n) ==
  [id |-> n, device_id |-> IF n % 10 = 0 THEN "d2" ELSE "d1",
   user_id |-> IF n % 10 = 0 THEN "u2" ELSE "u1",
   event_timestamp |-> EventTime(n),
   impact_force |-> 92, tilt_angle |-> 20, pre_event_speed_avg |-> 60,
   severity |-> "critical", injury_probability |-> 61,
   emergency_contacts_notified |-> FALSE, notification_attempts |-> 0,
   first_responder_contacted |-> FALSE, is_reviewed |-> FALSE, review_notes |-> "null",
   updated_at |-> EventTime(n)]

\* the n-th panic event stored earlier
StoredPanic(n) ==
  [id |-> n, device_id |-> IF n % 10 = 0 THEN "d2" ELSE "d1",
   user_id |-> IF n % 10 = 0 THEN "u2" ELSE "u1",
   event_timestamp |-> EventTime(n),
   triggered_by |-> IF n % 3 = 0 THEN "auto_detect" ELSE "manual_button",
   emergency_contacts_notified |-> FALSE, notification_attempts |-> 0,
   is_false_alarm |-> FALSE]

\* a running system whose tables hold events stored earlier
InitStored ==
  /\ devices = [d \in RegisteredIds |->
                  [user_id |-> Owner(d), status |-> "offline", last_seen |-> 0,
                   battery_level |-> NULL]]
  /\ \E n \in TableSizes :
       /\ crash_events = {StoredCrash(k) : k \in 1..n}
       /\ panic_events = {StoredPanic(k) : k \in 1..n}
  /\ now = 10
  /\ pool = "open"
  /\ checkedOut = 0
  /\ listeners = Topics
  /\ client = 1
  /\ sess = [k \in ClientIds |->
               IF k = 1 THEN [state |-> "open", subs |-> AllSubscriptions, pc |-> "done"]
               ELSE NoSess]
  /\ reconnectTimer = "null"
  /\ mainPc = "running"
  /\ shutPc = "none"
  /\ exited = FALSE
  /\ msg = [i \in Msgs |-> NoMsg]
  /\ hpc = [i \in Msgs |-> "idle"]
  /\ loc = [i \in Msgs |-> NoLoc]
  /\ tx = [i \in Msgs |-> NoTx]
  /\ out = [i \in Msgs |-> NoOut]
  /\ sigInflight = {}
  /\ api = NoResponse
  /\ ret = NoCall
  /\ shut2 = NoShut2

\* --------------------------------------------------------------- startup
\* main(): await initializeDatabase()
MainInit(ok) ==
  /\ ~exited /\ mainPc = "start"
  /\ IF ok
       THEN pool' = "open" /\ mainPc' = "dbReady" /\ exited' = exited
       ELSE pool' = pool /\ mainPc' = "failed" /\ exited' = TRUE
  /\ UNCHANGED <<dbVars, now, checkedOut, listeners, connVars, shutPc, handlerVars, sigInflight, api, ret, shut2>>

\* scheduleReconnect(): a timer that has fired is still a (truthy) Timeout object
scheduleReconnect(t) == IF t # "null" THEN t ELSE "pending"

\* connect(), up to its first await: create the broker client, attach the
\* event handlers, issue the first subscribe; or catch and scheduleReconnect.
\* t is reconnectTimer as connect() finds it.
connect(k, ok, t) ==
  /\ sess[k].pc = "idle"
  /\ \A j \in ClientIds : j < k => sess[j].pc # "idle"
  /\ IF ok
       THEN /\ client' = k
            /\ sess' = [sess EXCEPT ![k] = [state |-> "connecting", subs |-> {}, pc |-> "telemetry"]]
            /\ reconnectTimer' = t
       ELSE /\ client' = client
            /\ sess' = [sess EXCEPT ![k].pc = "failed"]
            /\ reconnectTimer' = scheduleReconnect(t)

\* main(): await mqttClient.connect()
MainConnect(ok) ==
  /\ ~exited /\ mainPc = "dbReady"
  /\ connect(1, ok, reconnectTimer)
  /\ mainPc' = "connecting"
  /\ UNCHANGED <<dbVars, now, pool, checkedOut, listeners, shutPc, exited, handlerVars, sigInflight, api, ret, shut2>>

\* the reconnect timer fires: this.connect()
TimerReconnect(ok) ==
  /\ ~exited /\ reconnectTimer = "pending"
  /\ \E k \in ClientIds : connect(k, ok, "fired")
  /\ UNCHANGED <<dbVars, now, pool, checkedOut, listeners, mainPc, shutPc, exited,
                 handlerVars, sigInflight, api, ret, shut2>>

\* handleConnect(): clear the reconnect timer
handleConnect(t) == "null"

\* The broker accepts the session of client k (first connection, or the
\* library's own reconnect): 'connect' is emitted; a session of the same
\* client id that was open is closed by the broker.
SessionUp(k) ==
  /\ ~exited /\ sess[k].state \in {"connecting", "lost"}
  /\ sess' = [j \in ClientIds |->
                IF j = k THEN [sess[j] EXCEPT !.state = "open"]
                ELSE IF sess[j].state = "open" THEN [sess[j] EXCEPT !.state = "kicked"]
                ELSE sess[j]]
  /\ reconnectTimer' = handleConnect(reconnectTimer)
  /\ UNCHANGED <<dbVars, now, pool, checkedOut, listeners, client, mainPc, shutPc, exited,
                 handlerVars, sigInflight, api, ret, shut2>>

\* a subscribeToTopics without its third subscribe
NextTopicNoPanic(t) == CASE t = "telemetry" -> "crash" [] OTHER -> "done"

NextTopic(t) == CASE t = "telemetry" -> "crash" [] t = "crash" -> "panic" [] OTHER -> "done"

\* subscribeToTopics(): one subscribe is acknowledged or fails
SubAck(k, ok) ==
  /\ ~exited /\ sess[k].state = "open" /\ sess[k].pc \in Topics
  /\ IF ok
       THEN /\ sess' = [sess EXCEPT ![k].subs = @ \cup {<<sess[k].pc, subscribeQoS(sess[k].pc)>>},
                                     ![k].pc = NextTopic(@)]
            /\ reconnectTimer' = reconnectTimer
       ELSE /\ sess' = [sess EXCEPT ![k].pc = "failed"]
            /\ reconnectTimer' = scheduleReconnect(reconnectTimer)
  /\ UNCHANGED <<dbVars, now, pool, checkedOut, listeners, client, mainPc, shutPc, exited,
                 handlerVars, sigInflight, api, ret, shut2>>

\* handleClose(): the connection of client k is lost, or an attempt of the
\* library to (re)connect it has failed ('close' is emitted for both)
ConnectionLost(k) ==
  /\ ~exited /\ sess[k].state \in {"connecting", "open", "kicked", "lost"}
  /\ sess' = [sess EXCEPT ![k].state = "lost"]
  /\ reconnectTimer' = scheduleReconnect(reconnectTimer)
  /\ UNCHANGED <<dbVars, now, pool, checkedOut, listeners, client, mainPc, shutPc, exited,
                 handlerVars, sigInflight, api, ret, shut2>>

\* main(): registerMQTTHandlers(); startServer()
registerMQTTHandlers ==
  /\ ~exited /\ mainPc = "connecting" /\ sess[1].pc \in {"done", "failed"}
  /\ listeners' = Topics
  /\ mainPc' = "running"
  /\ UNCHANGED <<dbVars, now, pool, checkedOut, connVars, shutPc, exited, handlerVars, sigInflight, api, ret, shut2>>

\* -------------------------------------------------------------- shutdown
InFlight(i) == hpc[i] \notin {"idle", "done"}

\* gracefulShutdown(), up to its first await: unregisterMQTTHandlers(), then
\* disconnect() up to this.client.end()
gracefulShutdown ==
  /\ ~exited /\ shutPc = "none"
  /\ listeners' = {}
  /\ sigInflight' = {i \in Msgs : InFlight(i)}
  /\ IF client # 0
       THEN /\ sess' = [sess EXCEPT ![client].state = "ending"]
            /\ reconnectTimer' = reconnectTimer
            /\ shutPc' = "ending"
            /\ shut2' = [shut2 EXCEPT !.clientEnds = @ + 1]
       ELSE /\ sess' = sess
            /\ reconnectTimer' = "null"
            /\ shutPc' = "disconnected"
            /\ shut2' = shut2
  /\ UNCHANGED <<dbVars, now, pool, checkedOut, client, mainPc, exited, handlerVars, api, ret>>

\* disconnect(): client.end() has resolved (or thrown: process.exit(1))
disconnect(ok) ==
  /\ ~exited /\ shutPc = "ending"
  /\ IF ok
       THEN /\ sess' = [j \in ClientIds |->
                          IF sess[j].state = "ending"
                            THEN [sess[j] EXCEPT !.state = "ended", !.subs = {}]
                            ELSE sess[j]]
            /\ client' = 0
            /\ reconnectTimer' = "null"
            /\ shutPc' = "disconnected"
            /\ exited' = exited
       ELSE /\ UNCHANGED <<sess, client, reconnectTimer>>
            /\ shutPc' = "failed"
            /\ exited' = TRUE
  /\ UNCHANGED <<dbVars, now, pool, checkedOut, listeners, mainPc, handlerVars, sigInflight, api, ret, shut2>>

\* pool.end() is called on a pool in state p: a pool on which end() has been
\* called before rejects ('Called end on pool more than once')
poolEnd(p) == IF p = "open" THEN "ending" ELSE "rejected"

\* closeDatabase(): pool.end() is called if the pool exists (pool is not
\* null); when it rejects, gracefulShutdown catches and calls process.exit(1)
closeDatabase ==
  /\ ~exited /\ shutPc = "disconnected"
  /\ IF pool \in {"none", "closed"}
       THEN pool' = pool /\ shutPc' = "done" /\ exited' = TRUE /\ shut2' = shut2
     ELSE /\ shut2' = [shut2 EXCEPT !.poolEnds = @ + 1]
          /\ IF poolEnd(pool) = "rejected"
               THEN pool' = pool /\ shutPc' = "failed" /\ exited' = TRUE
               ELSE pool' = poolEnd(pool) /\ shutPc' = "closingDb" /\ exited' = exited
  /\ UNCHANGED <<dbVars, now, checkedOut, listeners, connVars, mainPc, handlerVars, sigInflight, api, ret>>

\* pool.end() resolves once every checked-out client is back; pool = null;
\* process.exit(0)
closeDatabaseDone ==
  /\ ~exited /\ shutPc = "closingDb" /\ checkedOut = 0
  /\ pool' = "closed"
  /\ shutPc' = "done"
  /\ exited' = TRUE
  /\ UNCHANGED <<dbVars, now, checkedOut, listeners, connVars, mainPc, handlerVars, sigInflight, api, ret, shut2>>

\* a further signal while a shutdown is running: gracefulShutdown() runs
\* again, up to its first await: unregisterMQTTHandlers(), then disconnect()
\* up to this.client.end()
gracefulShutdownAgain ==
  /\ ~exited /\ shutPc # "none" /\ shut2.pc = "none"
  /\ listeners' = {}
  /\ IF client # 0
       THEN /\ shut2' = [shut2 EXCEPT !.pc = "ending", !.clientEnds = @ + 1]
            /\ reconnectTimer' = reconnectTimer
       ELSE /\ shut2' = [shut2 EXCEPT !.pc = "disconnected"]
            /\ reconnectTimer' = "null"
  /\ UNCHANGED <<dbVars, now, pool, checkedOut, client, sess, mainPc, shutPc, exited,
                 handlerVars, sigInflight, api, ret>>

\* disconnect() of the second run: its client.end() has resolved (or thrown:
\* process.exit(1))
disconnectAgain(ok) ==
  /\ ~exited /\ shut2.pc = "ending"
  /\ IF ok
       THEN /\ client' = 0
            /\ reconnectTimer' = "null"
            /\ shut2' = [shut2 EXCEPT !.pc = "disconnected"]
            /\ exited' = exited
       ELSE /\ UNCHANGED <<client, reconnectTimer>>
            /\ shut2' = [shut2 EXCEPT !.pc = "failed"]
            /\ exited' = TRUE
  /\ UNCHANGED <<dbVars, now, pool, checkedOut, listeners, sess, mainPc, shutPc,
                 handlerVars, sigInflight, api, ret>>

\* closeDatabase() of the second run
closeDatabaseAgain ==
  /\ ~exited /\ shut2.pc = "disconnected"
  /\ IF pool \in {"none", "closed"}
       THEN pool' = pool /\ shut2' = [shut2 EXCEPT !.pc = "done"] /\ exited' = TRUE
     ELSE IF poolEnd(pool) = "rejected"
       THEN /\ pool' = pool
            /\ shut2' = [shut2 EXCEPT !.pc = "failed", !.poolEnds = @ + 1]
            /\ exited' = TRUE
     ELSE /\ pool' = poolEnd(pool)
          /\ shut2' = [shut2 EXCEPT !.pc = "closingDb", !.poolEnds = @ + 1]
          /\ exited' = exited
  /\ UNCHANGED <<dbVars, now, checkedOut, listeners, connVars, mainPc, shutPc, handlerVars,
                 sigInflight, api, ret>>

\* pool.end() of the second run resolves; pool = null; process.exit(0)
closeDatabaseDoneAgain ==
  /\ ~exited /\ shut2.pc = "closingDb" /\ checkedOut = 0
  /\ pool' = "closed"
  /\ shut2' = [shut2 EXCEPT !.pc = "done"]
  /\ exited' = TRUE
  /\ UNCHANGED <<dbVars, now, checkedOut, listeners, connVars, mainPc, shutPc, handlerVars,
                 sigInflight, api, ret>>

\* startServer(): its own SIGTERM/SIGINT listener closes the HTTP server and
\* calls process.exit(0) from the close callback
serverShutdown ==
  /\ ~exited /\ shutPc # "none" /\ mainPc = "running"
  /\ exited' = TRUE
  /\ UNCHANGED <<dbVars, now, pool, checkedOut, listeners, connVars, mainPc, shutPc,
                 handlerVars, sigInflight, api, ret, shut2>>

\* -------------------------------------------------------------- handlers
\* a catch that handles validation errors and rethrows every other error
CaughtOnlyZod(err) == err = "ZodError"

\* the try/catch around the body of handleTelemetry, handleCrashEvent and
\* handlePanicEvent catches every error and only logs it
Caught(err) == TRUE

\* a receive callback whose try block covers JSON.parse only
CaughtParseOnly(err) == err = "SyntaxError"

\* the try/catch around the body of handleMessage catches every error and
\* only logs it
CaughtByTransport(err) == TRUE

\* getMessageType or JSON.parse throws inside handleMessage: nothing is emitted
TransportThrow(i, err) ==
  /\ hpc' = [hpc EXCEPT ![i] = "done"]
  /\ out' = [out EXCEPT ![i] = [outcome |-> "dropped-in-transport", error |-> err,
                                payload |-> 0, escaped |-> ~CaughtByTransport(err)]]

\* the handler returns normally
Return(i, outcome, payload) ==
  /\ hpc' = [hpc EXCEPT ![i] = "done"]
  /\ out' = [out EXCEPT ![i] = [outcome |-> outcome, error |-> "none",
                                payload |-> payload, escaped |-> FALSE]]

\* a handler that starts its transaction again after a persistence failure
ThrowAndRetry(i, outcome, err) ==
  /\ hpc' = [hpc EXCEPT ![i] = IF outcome = "persistence-failed" THEN "begin" ELSE "done"]
  /\ out' = [out EXCEPT ![i] = [outcome |-> outcome, error |-> err,
                                payload |-> 0, escaped |-> ~Caught(err)]]

\* err is thrown inside the handler's try block
Throw(i, outcome, err) ==
  /\ hpc' = [hpc EXCEPT ![i] = "done"]
  /\ out' = [out EXCEPT ![i] = [outcome |-> outcome, error |-> err,
                                payload |-> 0, escaped |-> ~Caught(err)]]

\* getPool() throws when pool is null, pool.query / pool.connect reject once
\* pool.end() has been called
PoolUsable == pool = "open"

\* handleMessage(topic, payload) of a broker client that holds the
\* subscription, this.emit(messageType, enrichedMessage), and the listener up
\* to its first await (schema parse, getDevice is called)
Deliver(i, s) ==
  /\ ~exited /\ hpc[i] = "idle"
  /\ \A j \in Msgs : j < i => hpc[j] # "idle"
  /\ \E k \in ClientIds :
       /\ sess[k].state \in {"open", "ending"}
       /\ Receives(k, s.topic) \/ (s.cls \notin Topics /\ sess[k].subs # {})
  /\ LET m == enrichedMessage(s, now, \E j \in Msgs : out[j].error # "none") IN
       /\ msg' = [msg EXCEPT ![i] = m]
       /\ now' = now + 1
       /\ IF getMessageType(s.topic) = "throw"
            THEN TransportThrow(i, "UnknownTopic") /\ checkedOut' = checkedOut
          ELSE IF ~s.json
            THEN TransportThrow(i, "SyntaxError") /\ checkedOut' = checkedOut
          ELSE IF m.cls \notin listeners
            THEN Return(i, "dropped", 0) /\ checkedOut' = checkedOut
          ELSE IF ~SchemaAccepts(m)
            THEN Throw(i, "rejected-malformed", "ZodError") /\ checkedOut' = checkedOut
          ELSE IF PoolUsable
            THEN /\ hpc' = [hpc EXCEPT ![i] = "lookup"]
                 /\ out' = [out EXCEPT ![i].outcome = "inflight"]
                 /\ checkedOut' = checkedOut + 1
          ELSE Throw(i, "lookup-failed", "PoolClosed") /\ checkedOut' = checkedOut
  /\ UNCHANGED <<dbVars, pool, listeners, connVars, mainPc, shutPc, exited, loc, tx, sigInflight, api, ret, shut2>>

\* processCrashEvent(crashData) / processPanicEvent(panicData) called by
\* another caller than the handlers, up to the first await: classification
\* (crash only), saveCrashEvent / savePanicEvent -> withTransaction ->
\* getClient.  s gives device_id and the measurements of the input, userId
\* its user_id (a row of users: user_id REFERENCES users(id)).
processEvent(i, s, userId) ==
  /\ ~exited /\ hpc[i] = "idle"
  /\ \A j \in Msgs : j < i => hpc[j] # "idle"
  /\ LET m == enrichedMessage(s, now, FALSE) IN
       /\ msg' = [msg EXCEPT ![i] = m]
       /\ now' = now + 1
       /\ loc' = [loc EXCEPT ![i].user_id = userId,
                             ![i].severity =
                                IF m.cls = "crash"
                                  THEN classifyCrashSeverity(m.impactForce, m.tiltAngle)
                                  ELSE "none",
                             ![i].injury_probability =
                                IF m.cls = "crash"
                                  THEN calculateInjuryProbability(m.impactForce, m.tiltAngle, m.speedAvg)
                                  ELSE NULL]
       /\ IF PoolUsable
            THEN /\ hpc' = [hpc EXCEPT ![i] = "begin"]
                 /\ out' = [out EXCEPT ![i].outcome = "inflight"]
                 /\ tx' = [tx EXCEPT ![i].state = "acquired"]
                 /\ checkedOut' = checkedOut + 1
            ELSE /\ Throw(i, "persistence-failed", "PoolClosed")
                 /\ tx' = tx
                 /\ checkedOut' = checkedOut
  /\ UNCHANGED <<dbVars, pool, listeners, connVars, mainPc, shutPc, exited, sigInflight, api, ret, shut2>>

processCrashEvent(i, s, userId) == s.cls = "crash" /\ processEvent(i, s, userId)

processPanicEvent(i, s, userId) == s.cls = "panic" /\ processEvent(i, s, userId)

\* getDevice resolves; telemetry goes on to updateDeviceStatus, crash to
\* classification and processCrashEvent -> saveCrashEvent -> withTransaction
\* -> getClient, panic to processPanicEvent -> savePanicEvent -> ...
LookupDone(i, ok, acq) ==
  /\ ~exited /\ hpc[i] = "lookup"
  /\ LET m == msg[i] IN
     IF ~ok
       THEN /\ Throw(i, "lookup-failed", "QueryError")
            /\ checkedOut' = checkedOut - 1
            /\ UNCHANGED <<loc, tx, now>>
     ELSE IF ~DeviceFound(devices, m.deviceId)
       THEN /\ Return(i, "rejected-unknown-device", 0)
            /\ checkedOut' = checkedOut - 1
            /\ UNCHANGED <<loc, tx, now>>
     ELSE IF m.cls = "telemetry"
       THEN /\ loc' = [loc EXCEPT ![i].user_id = UserOf(devices, m.deviceId), ![i].stamp = now]
            /\ now' = now + 1
            /\ tx' = tx
            /\ IF PoolUsable
                 THEN /\ hpc' = [hpc EXCEPT ![i] = "updStatus"]
                      /\ UNCHANGED <<out, checkedOut>>
                 ELSE /\ Throw(i, "update-failed", "PoolClosed")
                      /\ checkedOut' = checkedOut - 1
     ELSE /\ loc' = [loc EXCEPT ![i].user_id = UserOf(devices, m.deviceId),
                                ![i].severity =
                                   IF m.cls = "crash"
                                     THEN classifyCrashSeverity(m.impactForce, m.tiltAngle)
                                     ELSE "none",
                                ![i].injury_probability =
                                   IF m.cls = "crash"
                                     THEN calculateInjuryProbability(m.impactForce, m.tiltAngle, m.speedAvg)
                                     ELSE NULL]
          /\ now' = now
          /\ IF ~PoolUsable
               THEN /\ Throw(i, "persistence-failed", "PoolClosed")
                    /\ checkedOut' = checkedOut - 1
                    /\ tx' = tx
             ELSE IF ~acq
               THEN /\ Throw(i, "persistence-failed", "ConnectTimeout")
                    /\ checkedOut' = checkedOut - 1
                    /\ tx' = tx
             ELSE /\ hpc' = [hpc EXCEPT ![i] = "begin"]
                  /\ tx' = [tx EXCEPT ![i].state = "acquired"]
                  /\ UNCHANGED <<out, checkedOut>>
  /\ UNCHANGED <<dbVars, pool, listeners, connVars, mainPc, shutPc, exited, msg, sigInflight, api, ret, shut2>>

\* a withTransaction that releases the client at the end of its try block and
\* after ROLLBACK in its catch block, and has no finally block
releaseAfterRollback(t, thrown) ==
  IF thrown = "RollbackError" THEN t ELSE [t EXCEPT !.rel = @ + 1]

\* withTransaction: finally { client.release() }, which runs after the return
\* of the try block and after the throw of the catch block, whatever was thrown
release(t, thrown) == [t EXCEPT !.rel = @ + 1]

\* withTransaction: BEGIN resolves; the callback issues the INSERT
TxBegin(i, ok) ==
  /\ ~exited /\ hpc[i] = "begin"
  /\ IF ok
       THEN /\ tx' = [tx EXCEPT ![i].state = "open"]
            /\ hpc' = [hpc EXCEPT ![i] = "insert"]
       ELSE /\ tx' = [tx EXCEPT ![i].cause = "BeginError"]
            /\ hpc' = [hpc EXCEPT ![i] = "rollback"]
  /\ UNCHANGED <<dbVars, now, pool, checkedOut, listeners, connVars, mainPc, shutPc, exited,
                 msg, loc, out, sigInflight, api, ret, shut2>>

\* saveCrashEvent / savePanicEvent: the INSERT resolves; the UPDATE of the
\* device row is issued with new Date()
TxInsert(i, ok) ==
  /\ ~exited /\ hpc[i] = "insert"
  /\ IF ok
       THEN /\ tx' = [tx EXCEPT ![i].ins = TRUE]
            /\ loc' = [loc EXCEPT ![i].stamp = now]
            /\ now' = now + 1
            /\ hpc' = [hpc EXCEPT ![i] = "update"]
       ELSE /\ tx' = [tx EXCEPT ![i].cause = "InsertError"]
            /\ hpc' = [hpc EXCEPT ![i] = "rollback"]
            /\ UNCHANGED <<loc, now>>
  /\ UNCHANGED <<dbVars, pool, checkedOut, listeners, connVars, mainPc, shutPc, exited,
                 msg, out, sigInflight, api, ret, shut2>>

\* a lock on the whole devices table: an UPDATE waits for every open
\* transaction that has updated any row
RowFreeTableLock(d, i) ==
  \A j \in Msgs \ {i} : ~(tx[j].state = "open" /\ tx[j].upd)

\* an UPDATE of a devices row waits while another open transaction has
\* updated the same row (row lock)
RowFree(d, i) ==
  \A j \in Msgs \ {i} : ~(tx[j].state = "open" /\ tx[j].upd /\ msg[j].deviceId = d)

\* the UPDATE of the device row resolves; the callback returns and COMMIT is issued
TxUpdate(i, ok) ==
  /\ ~exited /\ hpc[i] = "update"
  /\ IF ok
       THEN /\ RowFree(msg[i].deviceId, i)
            /\ tx' = [tx EXCEPT ![i].upd = TRUE]
            /\ hpc' = [hpc EXCEPT ![i] = "commit"]
       ELSE /\ tx' = [tx EXCEPT ![i].cause = "UpdateError"]
            /\ hpc' = [hpc EXCEPT ![i] = "rollback"]
  /\ UNCHANGED <<dbVars, now, pool, checkedOut, listeners, connVars, mainPc, shutPc, exited,
                 msg, loc, out, sigInflight, api, ret, shut2>>

\* a COMMIT that reports success without storing the crash record
CommitCrashLost(ce, i) == ce

\* what COMMIT makes visible of the transaction of handler i
CommitCrash(ce, i) ==
  IF tx[i].ins /\ msg[i].cls = "crash" THEN ce \cup {CrashRow(i)} ELSE ce

CommitPanic(pe, i) ==
  IF tx[i].ins /\ msg[i].cls = "panic" THEN pe \cup {PanicRow(i)} ELSE pe

\* a panic transaction that also marks the device 'online'
CommitDevicesOnline(dv, i) ==
  IF ~tx[i].upd THEN dv
  ELSE IF msg[i].cls = "crash" THEN SetStatus(dv, msg[i].deviceId, "error", loc[i].stamp)
  ELSE SetStatus(dv, msg[i].deviceId, "online", loc[i].stamp)

CommitDevices(dv, i) ==
  IF ~tx[i].upd THEN dv
  ELSE IF msg[i].cls = "crash" THEN SetStatus(dv, msg[i].deviceId, "error", loc[i].stamp)
  ELSE SetLastSeen(dv, msg[i].deviceId, loc[i].stamp)

\* an INSERT issued outside the transaction survives the ROLLBACK
RollbackKeepsInsert(ce, i) == CommitCrash(ce, i)

\* what ROLLBACK (or the loss of the connection) leaves of it: nothing
RollbackCrash(ce, i) == ce

RollbackPanic(pe, i) == pe

RollbackDevices(dv, i) == dv

\* withTransaction: COMMIT resolves; finally client.release(); the result
\* goes back to processCrashEvent / processPanicEvent, which calls getDevice
TxCommit(i, ok) ==
  /\ ~exited /\ hpc[i] = "commit"
  /\ IF ok
       THEN /\ crash_events' = CommitCrash(crash_events, i)
            /\ panic_events' = CommitPanic(panic_events, i)
            /\ devices' = CommitDevices(devices, i)
            /\ tx' = [tx EXCEPT ![i] = release([@ EXCEPT !.state = "committed"], "none")]
            /\ IF PoolUsable
                 THEN /\ hpc' = [hpc EXCEPT ![i] = "lookup2"]
                      /\ UNCHANGED <<out, checkedOut>>
                 ELSE /\ Throw(i, "failed-after-commit", "PoolClosed")
                      /\ checkedOut' = checkedOut - 1
       ELSE /\ tx' = [tx EXCEPT ![i].cause = "CommitError"]
            /\ hpc' = [hpc EXCEPT ![i] = "rollback"]
            /\ UNCHANGED <<dbVars, out, checkedOut>>
  /\ UNCHANGED <<now, pool, listeners, connVars, mainPc, shutPc, exited, msg, loc, sigInflight, api, ret, shut2>>

\* withTransaction: catch: ROLLBACK resolves and the error is rethrown, or
\* ROLLBACK itself throws; finally client.release()
TxRollback(i, ok) ==
  /\ ~exited /\ hpc[i] = "rollback"
  /\ crash_events' = RollbackCrash(crash_events, i)
  /\ panic_events' = RollbackPanic(panic_events, i)
  /\ devices' = RollbackDevices(devices, i)
  /\ LET thrown == IF ok THEN tx[i].cause ELSE "RollbackError" IN
       /\ tx' = [tx EXCEPT ![i] = release([@ EXCEPT !.state = "rolledback", !.thrown = thrown],
                                          thrown)]
       /\ Throw(i, "persistence-failed", thrown)
  /\ checkedOut' = checkedOut - 1
  /\ UNCHANGED <<now, pool, listeners, connVars, mainPc, shutPc, exited, msg, loc, sigInflight, api, ret, shut2>>

\* processCrashEvent / processPanicEvent: getDevice resolves;
\* getEmergencyContacts is called
Lookup2Done(i, ok) ==
  /\ ~exited /\ hpc[i] = "lookup2"
  /\ IF ~ok
       THEN Throw(i, "failed-after-commit", "QueryError") /\ checkedOut' = checkedOut - 1
     ELSE IF ~DeviceFound(devices, msg[i].deviceId)
       THEN Return(i, "persisted-no-payload", 0) /\ checkedOut' = checkedOut - 1
     ELSE IF PoolUsable
       THEN hpc' = [hpc EXCEPT ![i] = "contacts"] /\ UNCHANGED <<out, checkedOut>>
     ELSE Throw(i, "failed-after-commit", "PoolClosed") /\ checkedOut' = checkedOut - 1
  /\ UNCHANGED <<dbVars, now, pool, listeners, connVars, mainPc, shutPc, exited,
                 msg, loc, tx, sigInflight, api, ret, shut2>>

\* getEmergencyContacts resolves; the notification payload is assembled
\* (eventId: savedEvent.id) and the handler logs it
ContactsDone(i, ok) ==
  /\ ~exited /\ hpc[i] = "contacts"
  /\ IF ok
       THEN Return(i, "notification-prepared", i)
       ELSE Throw(i, "failed-after-commit", "QueryError")
  /\ checkedOut' = checkedOut - 1
  /\ UNCHANGED <<dbVars, now, pool, listeners, connVars, mainPc, shutPc, exited,
                 msg, loc, tx, sigInflight, api, ret, shut2>>

\* handleTelemetry: updateDeviceStatus(deviceId, 'online', new Date()) resolves;
\* updateDeviceBattery is called when the message has a battery_level
UpdStatusDone(i, ok) ==
  /\ ~exited /\ hpc[i] = "updStatus"
  /\ IF ~ok
       THEN /\ Throw(i, "update-failed", "QueryError")
            /\ checkedOut' = checkedOut - 1
            /\ devices' = devices
       ELSE /\ RowFree(msg[i].deviceId, i)
            /\ devices' = SetStatus(devices, msg[i].deviceId, "online", loc[i].stamp)
            /\ IF msg[i].battery_level = NULL
                 THEN Return(i, "processed", 0) /\ checkedOut' = checkedOut - 1
               ELSE IF PoolUsable
                 THEN hpc' = [hpc EXCEPT ![i] = "updBattery"] /\ UNCHANGED <<out, checkedOut>>
               ELSE Throw(i, "update-failed", "PoolClosed") /\ checkedOut' = checkedOut - 1
  /\ UNCHANGED <<crash_events, panic_events, now, pool, listeners, connVars, mainPc, shutPc,
                 exited, msg, loc, tx, sigInflight, api, ret, shut2>>

\* handleTelemetry: updateDeviceBattery resolves
UpdBatteryDone(i, ok) ==
  /\ ~exited /\ hpc[i] = "updBattery"
  /\ IF ok
       THEN /\ RowFree(msg[i].deviceId, i)
            /\ devices' = SetBattery(devices, msg[i].deviceId, msg[i].battery_level)
            /\ Return(i, "processed", 0)
       ELSE /\ devices' = devices
            /\ Throw(i, "update-failed", "QueryError")
  /\ checkedOut' = checkedOut - 1
  /\ UNCHANGED <<crash_events, panic_events, now, pool, listeners, connVars, mainPc, shutPc,
                 exited, msg, loc, tx, sigInflight, api, ret, shut2>>


\* ------------------------------------------------------------------ API
\* enum EventSeverity
EventSeverity == {"low", "medium", "high", "critical"}

\* the keys of crashEventUpdateSchema; z.object strips every other key
UpdateSchemaKeys ==
  {"severity", "injury_probability", "emergency_contacts_notified",
   "first_responder_contacted", "is_reviewed", "review_notes"}

\* crashEventUpdateSchema.parse(req.body) succeeds
crashEventUpdateSchema(body) ==
  /\ "severity" \in DOMAIN body => body.severity \in EventSeverity
  /\ "injury_probability" \in DOMAIN body => InRange(body.injury_probability, 0, 100)

\* the value crashEventUpdateSchema.parse returns
ParsedUpdates(body) == [f \in DOMAIN body \cap UpdateSchemaKeys |-> body[f]]

\* the columns updateCrashEvent writes when the key is not undefined
UpdatableColumns == UpdateSchemaKeys \cup {"notification_attempts"}

\* trigger update_crash_events_updated_at, BEFORE UPDATE ON crash_events FOR
\* EACH ROW: NEW.updated_at = CURRENT_TIMESTAMP
update_updated_at_column(r) == [r EXCEPT !.updated_at = now]

\* an UPDATE of crash_events without its WHERE clause
updateCrashEventEveryRow(ce, eventId, updates) ==
  {update_updated_at_column(
     [f \in DOMAIN r |->
        IF f \in DOMAIN updates \cap UpdatableColumns THEN updates[f] ELSE r[f]]) : r \in ce}

\* updateCrashEvent: UPDATE crash_events SET <fields> WHERE id = $n
updateCrashEvent(ce, eventId, updates) ==
  {IF r.id = eventId
     THEN update_updated_at_column(
            [f \in DOMAIN r |->
               IF f \in DOMAIN updates \cap UpdatableColumns THEN updates[f] ELSE r[f]])
     ELSE r : r \in ce}

\* the columns updatePanicEvent writes when the key is not undefined
PanicUpdatableColumns ==
  {"emergency_contacts_notified", "notification_attempts", "ambulance_requested",
   "police_requested", "is_false_alarm", "resolved_at", "rider_status", "notes"}

\* updatePanicEvent: UPDATE panic_events SET <fields> WHERE id = $n
updatePanicEvent(pe, eventId, updates) ==
  {IF r.id = eventId
     THEN [f \in DOMAIN r |->
             IF f \in DOMAIN updates \cap PanicUpdatableColumns THEN updates[f] ELSE r[f]]
     ELSE r : r \in pe}

\* request bodies of PATCH /crashes/:eventId
Bodies ==
  {[is_reviewed |-> TRUE, review_notes |-> "checked"],
   [severity |-> "low"],
   [severity |-> "fatal"],
   [notification_attempts |-> 1]}

\* the payload jwt.verify decodes from the token of a request: a
\* TokenPayload, which names its user as userId; id is the value of an id
\* claim the token may carry besides ("undefined": it has none)
Tokens ==
  {[userId |-> "u1", id |-> "undefined"], [userId |-> "u1", id |-> "u1"],
   [userId |-> "u2", id |-> "undefined"], [userId |-> "u2", id |-> "u2"]}

\* authMiddleware: req.user = decoded
authMiddleware(decoded) == decoded

\* event ids of req.params: of an event of u1, of an event of u2, of no event
EventIds == {1, 10, 200}

\* GET /crashes/:eventId: authMiddleware, getCrashEvent, ownership check
\* against req.user?.id, response (errors go to errorHandler: 500)
GetCrashEvent(token, eventId) ==
  /\ ~exited /\ mainPc = "running"
  /\ LET userId == authMiddleware(token).id
         rows == {r \in crash_events : r.id = eventId}
         status ==
           IF ~PoolUsable THEN 500
           ELSE IF rows = {} THEN 404
           ELSE IF \A r \in rows : r.user_id # userId THEN 403
           ELSE 200
     IN api' = [status |-> status, eventId |-> eventId, userId |-> userId,
                user |-> authMiddleware(token)]
  /\ UNCHANGED <<dbVars, now, pool, checkedOut, listeners, connVars, mainPc,
                 shutPc, exited, handlerVars, sigInflight, ret, shut2>>

\* PATCH /crashes/:eventId: authMiddleware, parse, getCrashEvent, ownership
\* check against req.user?.id, updateCrashEvent, response (errors go to
\* errorHandler: 500). No operation deletes or re-owns a crash event between
\* getCrashEvent and updateCrashEvent.
PatchCrashEvent(token, eventId, body) ==
  /\ ~exited /\ mainPc = "running"
  /\ LET tokenId == authMiddleware(token).id
         updates == ParsedUpdates(body)
         rows == {r \in crash_events : r.id = eventId}
         status ==
           IF ~crashEventUpdateSchema(body) \/ ~PoolUsable THEN 500
           ELSE IF rows = {} THEN 404
           ELSE IF \A r \in rows : r.user_id # tokenId THEN 403
           ELSE IF DOMAIN updates = {} THEN 500
           ELSE 200
     IN /\ crash_events' = IF status = 200
                             THEN updateCrashEvent(crash_events, eventId, updates)
                             ELSE crash_events
        /\ api' = [status |-> status, eventId |-> eventId, userId |-> tokenId,
                   user |-> authMiddleware(token)]
  /\ UNCHANGED <<devices, panic_events, now, pool, checkedOut, listeners, connVars, mainPc,
                 shutPc, exited, handlerVars, sigInflight, ret, shut2>>

\* what the UPDATE ... RETURNING * of an update function makes it throw
updateThrows(rows, eventId, ok) ==
  IF ~PoolUsable THEN "PoolClosed"
  ELSE IF ~ok THEN "QueryError"
  ELSE IF \A r \in rows : r.id # eventId THEN "NotFound"
  ELSE "none"

\* markCrashNotificationsSent(eventId, attempts): updateCrashEvent, and the
\* error it throws is logged and thrown on to the caller
markCrashNotificationsSent(eventId, attempts, ok) ==
  /\ ~exited
  /\ LET error == updateThrows(crash_events, eventId, ok) IN
       /\ crash_events' = IF error = "none"
                            THEN updateCrashEvent(crash_events, eventId,
                                   [emergency_contacts_notified |-> TRUE,
                                    notification_attempts |-> attempts])
                            ELSE crash_events
       /\ ret' = [fn |-> "markCrashNotificationsSent", eventId |-> eventId,
                  attempts |-> attempts, error |-> error]
  /\ UNCHANGED <<devices, panic_events, now, pool, checkedOut, listeners, connVars, mainPc,
                 shutPc, exited, handlerVars, sigInflight, api, shut2>>

\* markPanicNotificationsSent(eventId, attempts): updatePanicEvent, and the
\* error it throws is logged and thrown on to the caller
markPanicNotificationsSent(eventId, attempts, ok) ==
  /\ ~exited
  /\ LET error == updateThrows(panic_events, eventId, ok) IN
       /\ panic_events' = IF error = "none"
                            THEN updatePanicEvent(panic_events, eventId,
                                   [emergency_contacts_notified |-> TRUE,
                                    notification_attempts |-> attempts])
                            ELSE panic_events
       /\ ret' = [fn |-> "markPanicNotificationsSent", eventId |-> eventId,
                  attempts |-> attempts, error |-> error]
  /\ UNCHANGED <<devices, crash_events, now, pool, checkedOut, listeners, connVars, mainPc,
                 shutPc, exited, handlerVars, sigInflight, api, shut2>>

\* ------------------------------------------------------------ list queries
\* limit and offset of req.query after transform(Number); NULL: not given
QueryLimits == {NULL, 0, 1, 100, 101, 1000}
QueryOffsets == {NULL, 0 - 1, 1, 100}

\* a query schema whose limit has no upper bound
querySchemaNoMax(limit, offset) ==
  /\ limit = NULL \/ limit >= 1
  /\ offset = NULL \/ offset >= 0

\* crashEventQuerySchema.parse(req.query) succeeds
crashEventQuerySchema(limit, offset) ==
  /\ Optional(limit, 1, 100)
  /\ offset = NULL \/ offset >= 0

\* panicEventQuerySchema.parse(req.query) succeeds
panicEventQuerySchema(limit, offset) ==
  /\ Optional(limit, 1, 100)
  /\ offset = NULL \/ offset >= 0

\* WHERE user_id = $n, when filters.user_id is truthy
WhereUser(rows, userId) ==
  IF userId = "undefined" THEN rows ELSE {r \in rows : r.user_id = userId}

\* ORDER BY event_timestamp DESC: the event timestamps of rows, newest first
RECURSIVE OrderByTimestampDesc(_)
OrderByTimestampDesc(rows) ==
  IF rows = {} THEN <<>>
  ELSE LET newest == CHOOSE t \in {r.event_timestamp : r \in rows} :
                       \A r \in rows : r.event_timestamp <= t
           first == {r \in rows : r.event_timestamp = newest}
       IN [k \in 1..Cardinality(first) |-> newest] \o OrderByTimestampDesc(rows \ first)

\* LIMIT $n OFFSET $m with limit = filters.limit || 50, offset = filters.offset || 0
LimitOffset(ordered, limit, offset) ==
  LET l == IF Truthy(limit) THEN limit ELSE 50
      o == IF Truthy(offset) THEN offset ELSE 0
  IN SubSeq(ordered, o + 1, Min(o + l, Len(ordered)))

\* getCrashEvents / getPanicEvents: the event timestamps of result.rows
getEvents(rows, userId, limit, offset) ==
  LimitOffset(OrderByTimestampDesc(WhereUser(rows, userId)), limit, offset)

\* GET /crashes: authMiddleware, parse the query, getCrashEvents with
\* user_id: req.user?.id, res.json (errors go to
\* errorHandler: 500)
ListCrashEvents(token, limit, offset) ==
  /\ ~exited /\ mainPc = "running"
  /\ LET ok == crashEventQuerySchema(limit, offset) /\ PoolUsable
         userId == authMiddleware(token).id IN
       ret' = [fn |-> "getCrashEvents", limit |-> limit, offset |-> offset,
               status |-> IF ok THEN 200 ELSE 500, user |-> authMiddleware(token),
               data |-> IF ok THEN getEvents(crash_events, userId, limit, offset) ELSE <<>>]
  /\ UNCHANGED <<dbVars, now, pool, checkedOut, listeners, connVars, mainPc, shutPc, exited,
                 handlerVars, sigInflight, api, shut2>>

\* GET /panics: authMiddleware, parse the query, getPanicEvents with
\* user_id: req.user?.id, res.json
ListPanicEvents(token, limit, offset) ==
  /\ ~exited /\ mainPc = "running"
  /\ LET ok == panicEventQuerySchema(limit, offset) /\ PoolUsable
         userId == authMiddleware(token).id IN
       ret' = [fn |-> "getPanicEvents", limit |-> limit, offset |-> offset,
               status |-> IF ok THEN 200 ELSE 500, user |-> authMiddleware(token),
               data |-> IF ok THEN getEvents(panic_events, userId, limit, offset) ELSE <<>>]
  /\ UNCHANGED <<dbVars, now, pool, checkedOut, listeners, connVars, mainPc, shutPc, exited,
                 handlerVars, sigInflight, api, shut2>>

\* ----------------------------------------------------------- classifier
\* values of CrashEventCreateInput.impact_force (tenths of G, absent or not
\* negative), tilt_angle (absent or in [0,180]) and pre_event_speed_avg
\* (absent or not negative), around every threshold and cap
ImpactForces == {NULL, 0, 15, 30, 31, 50, 51, 65, 80, 81, 92, 10000}
TiltAngles == {NULL, 0, 10, 20, 30, 31, 45, 46, 55, 70, 71, 90, 180}
Speeds == {NULL, 0, 20, 60, 100, 1000}

\* processCrashEvent: classify severity, calculate injury probability
classify(impactForce, tiltAngle, speed) ==
  /\ ret' = [fn |-> "classify", impact_force |-> impactForce, tilt_angle |-> tiltAngle,
             pre_event_speed_avg |-> speed,
             severity |-> classifyCrashSeverity(impactForce, tiltAngle),
             injury_probability |-> calculateInjuryProbability(impactForce, tiltAngle, speed)]
  /\ UNCHANGED <<dbVars, now, pool, checkedOut, listeners, connVars, mainPc, shutPc, exited,
                 handlerVars, sigInflight, api, shut2>>

\* ------------------------------------------------------- specifications
Startup ==
  \/ \E ok \in BOOLEAN : MainInit(ok)
  \/ \E ok \in BOOLEAN : MainConnect(ok)
  \/ \E k \in ClientIds : SessionUp(k)
  \/ \E k \in ClientIds, ok \in BOOLEAN : SubAck(k, ok)
  \/ registerMQTTHandlers

Shutdown ==
  \/ gracefulShutdown
  \/ \E ok \in BOOLEAN : disconnect(ok)
  \/ closeDatabase
  \/ closeDatabaseDone
  \/ serverShutdown

Handlers ==
  \/ \E i \in Msgs, s \in Samples : Deliver(i, s)
  \/ \E i \in Msgs, ok \in BOOLEAN, acq \in BOOLEAN : LookupDone(i, ok, acq)
  \/ \E i \in Msgs, ok \in BOOLEAN : TxBegin(i, ok)
  \/ \E i \in Msgs, ok \in BOOLEAN : TxInsert(i, ok)
  \/ \E i \in Msgs, ok \in BOOLEAN : TxUpdate(i, ok)
  \/ \E i \in Msgs, ok \in BOOLEAN : TxCommit(i, ok)
  \/ \E i \in Msgs, ok \in BOOLEAN : TxRollback(i, ok)
  \/ \E i \in Msgs, ok \in BOOLEAN : Lookup2Done(i, ok)
  \/ \E i \in Msgs, ok \in BOOLEAN : ContactsDone(i, ok)
  \/ \E i \in Msgs, ok \in BOOLEAN : UpdStatusDone(i, ok)
  \/ \E i \in Msgs, ok \in BOOLEAN : UpdBatteryDone(i, ok)

Next == Startup \/ Shutdown \/ Handlers

\* the ingestion pipeline from startup to shutdown, with a broker that stays
\* reachable once the session is up
Spec == Init /\ [][Next]_vars

\* the transport client with a broker that can refuse, drop and take back the
\* connection, from startup to shutdown
Connection ==
  \/ \E ok \in BOOLEAN : TimerReconnect(ok)
  \/ \E k \in ClientIds : ConnectionLost(k)

NextConn == Startup \/ Connection \/ Shutdown

SpecConn == Init /\ [][NextConn]_vars

\* the transport client of a running system: connection losses, reconnects
\* and the shutdown
NextReconnect ==
  \/ \E k \in ClientIds : SessionUp(k)
  \/ \E k \in ClientIds, ok \in BOOLEAN : SubAck(k, ok)
  \/ Connection
  \/ Shutdown

SpecReconnect == InitRunning /\ [][NextReconnect]_vars

\* ingestion without persistence failures, and the API on the stored events
Ingest ==
  \/ MainInit(TRUE)
  \/ MainConnect(TRUE)
  \/ \E k \in ClientIds : SessionUp(k)
  \/ \E k \in ClientIds : SubAck(k, TRUE)
  \/ registerMQTTHandlers
  \/ \E i \in Msgs, s \in CrashSamples : Deliver(i, s)
  \/ \E i \in Msgs : LookupDone(i, TRUE, TRUE)
  \/ \E i \in Msgs : TxBegin(i, TRUE)
  \/ \E i \in Msgs : TxInsert(i, TRUE)
  \/ \E i \in Msgs : TxUpdate(i, TRUE)
  \/ \E i \in Msgs : TxCommit(i, TRUE)
  \/ \E i \in Msgs : Lookup2Done(i, TRUE)
  \/ \E i \in Msgs : ContactsDone(i, TRUE)

Api ==
  \E token \in Tokens, eventId \in Msgs, body \in Bodies :
    PatchCrashEvent(token, eventId, body)

NextApi == Ingest \/ Api

SpecApi == Init /\ [][NextApi]_vars

\* telemetry messages around the bounds of the validator, handled by a
\* running system
NextTelemetry ==
  \/ \E i \in Msgs, s \in TelemetryGrid : Deliver(i, s)
  \/ \E i \in Msgs, ok \in BOOLEAN : LookupDone(i, ok, TRUE)
  \/ \E i \in Msgs, ok \in BOOLEAN : UpdStatusDone(i, ok)
  \/ \E i \in Msgs, ok \in BOOLEAN : UpdBatteryDone(i, ok)

SpecTelemetry == InitRunning /\ [][NextTelemetry]_vars

\* telemetry handlers of a running system without persistence failures, in
\* every interleaving of their awaits
NextConcurrent ==
  \/ \E i \in Msgs, s \in ConcurrentSamples : Deliver(i, s)
  \/ \E i \in Msgs : LookupDone(i, TRUE, TRUE)
  \/ \E i \in Msgs : UpdStatusDone(i, TRUE)
  \/ \E i \in Msgs : UpdBatteryDone(i, TRUE)

SpecConcurrent == InitRunning /\ [][NextConcurrent]_vars

\* the event service of a running system called with the inputs of
\* registered and of unregistered devices
NextService ==
  \/ \E i \in Msgs, s \in CrashSamples, u \in {"u1", "u2"} : processCrashEvent(i, s, u)
  \/ \E i \in Msgs, s \in PanicSamples, u \in {"u1", "u2"} : processPanicEvent(i, s, u)
  \/ \E i \in Msgs, ok \in BOOLEAN : TxBegin(i, ok)
  \/ \E i \in Msgs, ok \in BOOLEAN : TxInsert(i, ok)
  \/ \E i \in Msgs, ok \in BOOLEAN : TxUpdate(i, ok)
  \/ \E i \in Msgs, ok \in BOOLEAN : TxCommit(i, ok)
  \/ \E i \in Msgs, ok \in BOOLEAN : TxRollback(i, ok)
  \/ \E i \in Msgs, ok \in BOOLEAN : Lookup2Done(i, ok)
  \/ \E i \in Msgs, ok \in BOOLEAN : ContactsDone(i, ok)

SpecService == InitRunning /\ [][NextService]_vars

\* a running system that also receives what the receive callback cannot parse
NextTransport ==
  \/ Handlers
  \/ \E i \in Msgs, s \in TransportSamples : Deliver(i, s)

SpecTransport == InitRunning /\ [][NextTransport]_vars

\* a valid crash message and a valid panic message of registered devices
NotifySamples ==
  { Sample("crash", "d1", "d1", 12, NULL, 92, 20, 60, TRUE, "none"),
    Sample("panic", "d2", "d2", 12, NULL, NULL, NULL, NULL, FALSE, "auto") }

\* a running system that stores events, and the notification sender
\* reporting back on stored and on unknown event ids
NextNotify ==
  \/ \E i \in Msgs, s \in NotifySamples : Deliver(i, s)
  \/ \E i \in Msgs : LookupDone(i, TRUE, TRUE)
  \/ \E i \in Msgs : TxBegin(i, TRUE)
  \/ \E i \in Msgs : TxInsert(i, TRUE)
  \/ \E i \in Msgs : TxUpdate(i, TRUE)
  \/ \E i \in Msgs : TxCommit(i, TRUE)
  \/ \E i \in Msgs : Lookup2Done(i, TRUE)
  \/ \E i \in Msgs : ContactsDone(i, TRUE)
  \/ \E eventId \in Msgs, attempts \in 0..MaxAttempts, ok \in BOOLEAN :
       markCrashNotificationsSent(eventId, attempts, ok)
  \/ \E eventId \in Msgs, attempts \in 0..MaxAttempts, ok \in BOOLEAN :
       markPanicNotificationsSent(eventId, attempts, ok)

SpecNotify == InitRunning /\ [][NextNotify]_vars

\* a running system that handles messages without persistence failures and
\* is shut down by one signal or by two, with a broker client whose end()
\* succeeds
NextShutdown ==
  \/ \E i \in Msgs, s \in NotifySamples : Deliver(i, s)
  \/ \E i \in Msgs : LookupDone(i, TRUE, TRUE)
  \/ \E i \in Msgs : TxBegin(i, TRUE)
  \/ \E i \in Msgs : TxInsert(i, TRUE)
  \/ \E i \in Msgs : TxUpdate(i, TRUE)
  \/ \E i \in Msgs : TxCommit(i, TRUE)
  \/ \E i \in Msgs : Lookup2Done(i, TRUE)
  \/ \E i \in Msgs : ContactsDone(i, TRUE)
  \/ gracefulShutdown
  \/ disconnect(TRUE)
  \/ closeDatabase
  \/ closeDatabaseDone
  \/ gracefulShutdownAgain
  \/ disconnectAgain(TRUE)
  \/ closeDatabaseAgain
  \/ closeDatabaseDoneAgain

SpecShutdown == InitRunning /\ [][NextShutdown]_vars

\* a running system without persistence failures that receives the
\* messages of DispatchSamples
NextDispatch ==
  \/ \E i \in Msgs, s \in DispatchSamples : Deliver(i, s)
  \/ \E i \in Msgs : LookupDone(i, TRUE, TRUE)
  \/ \E i \in Msgs : TxBegin(i, TRUE)
  \/ \E i \in Msgs : TxInsert(i, TRUE)
  \/ \E i \in Msgs : TxUpdate(i, TRUE)
  \/ \E i \in Msgs : TxCommit(i, TRUE)
  \/ \E i \in Msgs : Lookup2Done(i, TRUE)
  \/ \E i \in Msgs : ContactsDone(i, TRUE)
  \/ \E i \in Msgs : UpdStatusDone(i, TRUE)
  \/ \E i \in Msgs : UpdBatteryDone(i, TRUE)

SpecDispatch == InitRunning /\ [][NextDispatch]_vars

\* the list endpoints of a running system over stored events
NextList ==
  \/ \E token \in Tokens, limit \in QueryLimits, offset \in QueryOffsets :
       ListCrashEvents(token, limit, offset)
  \/ \E token \in Tokens, limit \in QueryLimits, offset \in QueryOffsets :
       ListPanicEvents(token, limit, offset)

SpecList == InitStored /\ [][NextList]_vars

\* the event API of a running system over the stored events of two users
NextOwner ==
  \/ \E token \in Tokens, limit \in {NULL, 1} : ListCrashEvents(token, limit, NULL)
  \/ \E token \in Tokens, limit \in {NULL, 1} : ListPanicEvents(token, limit, NULL)
  \/ \E token \in Tokens, eventId \in EventIds : GetCrashEvent(token, eventId)
  \/ \E token \in Tokens, eventId \in EventIds :
       PatchCrashEvent(token, eventId, [is_reviewed |-> TRUE, review_notes |-> "checked"])

SpecOwner == InitStored /\ [][NextOwner]_vars

\* the classifier, called with one crash input after another
NextClassifier ==
  \E f \in ImpactForces, t \in TiltAngles, s \in Speeds : classify(f, t, s)

SpecClassifier == Init /\ [][NextClassifier]_vars

\* ============================================================ properties
HasCrash(i) == \E r \in crash_events : r.id = i
HasPanic(i) == \E r \in panic_events : r.id = i
Registered(d) == d \in DOMAIN devices
IsCrash(i) == msg[i].cls = "crash"
IsCritical(i) == msg[i].cls \in {"crash", "panic"}

\* the device row shows the write of the crash transaction of handler i
ShowsCrashWrite(dv, i) ==
  /\ Registered(msg[i].deviceId)
  /\ loc[i].stamp # 0
  /\ dv[msg[i].deviceId].last_seen = loc[i].stamp
  /\ dv[msg[i].deviceId].status = "error"

\* C1: in every execution of saveCrashEvent the crash record and the device
\* update (status 'error', new last-seen) become visible in the same step or
\* not at all: after a failed insert, update or commit no crash record of the
\* event exists and the device row carries nothing of the transaction.
C1_CrashAtomic ==
  /\ [][\A i \in Msgs : IsCrash(i) =>
          ((~HasCrash(i) /\ HasCrash(i)')
             <=> (~ShowsCrashWrite(devices, i) /\ ShowsCrashWrite(devices', i)))]_vars
  /\ [](\A i \in Msgs : (IsCrash(i) /\ tx[i].state = "rolledback") =>
          (~HasCrash(i) /\ ~ShowsCrashWrite(devices, i)))

\* a crash transaction whose device update failed after its insert had run
C1_Witness ==
  \E i \in Msgs : IsCrash(i) /\ tx[i].state = "rolledback" /\ tx[i].ins
                  /\ tx[i].cause = "UpdateError"

\* C2: every crash or panic message that was delivered, is valid and names a
\* registered device has exactly one event record once it has been handled,
\* unless its transaction failed.
C2_ExactlyOnce ==
  \A i \in Msgs :
    (hpc[i] = "done" /\ IsCritical(i) /\ SchemaAccepts(msg[i]) /\ Registered(msg[i].deviceId))
      => \/ Cardinality({r \in crash_events \cup panic_events : r.id = i}) = 1
         \/ out[i].outcome = "persistence-failed"

\* C3: a crash message whose device id is not in the registry produces no
\* persisted crash record and no notification payload.
C3_UnknownDeviceCrash ==
  \A i \in Msgs : (IsCrash(i) /\ ~Registered(msg[i].deviceId)) =>
    /\ ~HasCrash(i)
    /\ \A r \in crash_events : r.device_id # msg[i].deviceId
    /\ out[i].payload = 0
    /\ out[i].outcome # "notification-prepared"

\* the handler of a crash message for an unregistered device has finished
C3_Witness ==
  \E i \in Msgs : IsCrash(i) /\ ~Registered(msg[i].deviceId)
                  /\ out[i].outcome = "rejected-unknown-device"

\* C4: no step adds a device to the registry, and no step of the handler of a
\* telemetry, crash or panic message whose device id is not registered
\* changes a device row or creates an event record.
C4_NoAutoCreate ==
  [][/\ DOMAIN devices' = DOMAIN devices
     /\ \A i \in Msgs :
          (hpc'[i] # hpc[i] /\ ~Registered(msg'[i].deviceId))
            => UNCHANGED <<devices, crash_events, panic_events>>]_vars

\* a telemetry, a crash and a panic message for an unregistered device have
\* each been handled to the end
C4_Witness ==
  \E i \in Msgs : /\ ~Registered(msg[i].deviceId)
                  /\ msg[i].cls = "panic"
                  /\ out[i].outcome = "rejected-unknown-device"
                  /\ \E j \in Msgs : /\ msg[j].cls = "telemetry"
                                     /\ ~Registered(msg[j].deviceId)
                                     /\ out[j].outcome = "rejected-unknown-device"

\* handler i ends with an error in this step
FailsNow(i) == out[i].error = "none" /\ out'[i].error # "none"

\* C5: no failure raised while a message is handled leaves its handler, and
\* the step in which a handler fails changes nothing of the dispatch (the
\* listeners, the broker clients, the pool, startup and shutdown) nor of any
\* other handler, so later messages are dispatched and handled as before.
C5_FailureContained ==
  /\ [](\A i \in Msgs : ~out[i].escaped)
  /\ [][\A i \in Msgs : FailsNow(i) =>
          /\ UNCHANGED <<listeners, client, sess, reconnectTimer, pool, mainPc, shutPc, exited>>
          /\ \A j \in Msgs \ {i} :
               /\ msg'[j] = msg[j] /\ hpc'[j] = hpc[j] /\ loc'[j] = loc[j]
               /\ tx'[j] = tx[j] /\ out'[j] = out[j]]_vars

\* a message that arrived after the handler of another message had failed on
\* a persistence error has been processed to the end
C5_Witness ==
  \E i, j \in Msgs :
    /\ out[i].error \notin {"none", "ZodError"}
    /\ msg[j].afterFailure
    /\ out[j].outcome \in {"notification-prepared", "processed"}

\* a connect() attempt of the transport client fails in this step
AttemptFails(k) == sess[k].pc # "failed" /\ sess'[k].pc = "failed"

\* C6: as long as disconnect() has not been called, every step in which a
\* connect() attempt fails leaves a reconnect attempt scheduled.
C6_Rescheduled ==
  [][\A k \in ClientIds :
       (AttemptFails(k) /\ shutPc = "none") => reconnectTimer' = "pending"]_vars

\* C9: every stored crash event carries the severity and the injury
\* probability the classifier gives for its impact force, tilt angle and speed.
C9_ClassifierFieldsFixed ==
  \A r \in crash_events :
    /\ r.severity = classifyCrashSeverity(r.impact_force, r.tilt_angle)
    /\ r.injury_probability =
         calculateInjuryProbability(r.impact_force, r.tilt_angle, r.pre_event_speed_avg)

\* C7: no crash or panic handler that was in flight when the shutdown signal
\* arrived finds the pool closed before its transaction has committed or
\* rolled back.
C7_InflightComplete ==
  \A i \in sigInflight :
    IsCritical(i) =>
      ~(out[i].error = "PoolClosed" /\ tx[i].state \notin {"committed", "rolledback"})

\* C8: withTransaction makes the callback's writes visible when it commits;
\* when the callback or the commit throws, none of the writes is visible and
\* the error it throws is that same error.
C8_WithTransaction ==
  \A i \in Msgs :
    /\ tx[i].state = "committed" => (HasCrash(i) \/ HasPanic(i))
    /\ (tx[i].state = "rolledback"
          /\ tx[i].cause \in {"InsertError", "UpdateError", "CommitError"}) =>
         (~HasCrash(i) /\ ~HasPanic(i) /\ tx[i].thrown = tx[i].cause)

\* C10: a message whose in-body device id differs from the device id of its
\* topic is discarded as a validation failure: no event record is created for
\* it and no device row is updated.
C10_MismatchRejected ==
  \A i \in Msgs :
    (msg[i].cls # "none" /\ msg[i].bodyDev # msg[i].deviceId) =>
      /\ ~HasCrash(i) /\ ~HasPanic(i)
      /\ tx[i].state # "committed"
      /\ out[i].outcome \notin {"notification-prepared", "processed", "persisted-no-payload",
                                "failed-after-commit"}

\* a crash message that lacks a required pre-event or post-event field
Incomplete(m) ==
  /\ m.cls = "crash"
  /\ (~m.postAccel \/ m.speedAvg = NULL \/ m.impactForce = NULL \/ m.tiltAngle = NULL)

\* C11: a crash message with incomplete forensic data is rejected by the
\* validator before any other step: its handler never gets past validation,
\* the classifier is not invoked for it (no severity, no injury probability),
\* no transaction is started, no crash record is written, and the step that
\* handles it changes no table.
C11_IncompleteCrashRejected ==
  /\ [](\A i \in Msgs : Incomplete(msg[i]) =>
          /\ hpc[i] \in {"idle", "done"}
          /\ loc[i] = NoLoc /\ tx[i] = NoTx
          /\ ~HasCrash(i)
          /\ out[i].outcome \in {"dropped", "rejected-malformed"}
          /\ out[i].payload = 0)
  /\ [][\A i \in Msgs : (hpc'[i] # hpc[i] /\ Incomplete(msg'[i])) =>
          UNCHANGED <<devices, crash_events, panic_events>>]_vars

\* a crash message without the post-event acceleration vector has been
\* rejected by the validator
C11_Witness ==
  \E i \in Msgs : /\ msg[i].cls = "crash" /\ ~msg[i].postAccel
                  /\ out[i].outcome = "rejected-malformed" /\ out[i].error = "ZodError"

\* the telemetry message handler i received is in the ranges of the validator
TelemetryInRange(m) ==
  /\ m.deviceId \in {"d1", "d2", "ghost"} /\ m.timestamp >= 1
  /\ m.lat # NULL /\ m.lat >= 0 - 90 /\ m.lat <= 90
  /\ m.lon # NULL /\ m.lon >= 0 - 180 /\ m.lon <= 180
  /\ m.speed # NULL /\ m.speed >= 0
  /\ m.heading # NULL /\ m.heading >= 0 /\ m.heading <= 360
  /\ (m.battery_level = NULL \/ (m.battery_level >= 0 /\ m.battery_level <= 100))

Body(m) == [m EXCEPT !.timestamp = 0, !.afterFailure = FALSE]

\* handlers i and j have processed the same valid telemetry message
Replayed(i, j) ==
  /\ i # j /\ msg[i].cls = "telemetry" /\ Body(msg[i]) = Body(msg[j])
  /\ out[i].outcome = "processed" /\ out[j].outcome = "processed"

\* handler j applies its status update in this step
WritesStatus(j) ==
  /\ msg[j].cls = "telemetry" /\ hpc[j] = "updStatus" /\ hpc'[j] # hpc[j]
  /\ out'[j].error = "none"

\* every other message for the device of message i is a replay of message i
\* or was rejected by the validator
OnlyReplays(i) ==
  \A k \in Msgs \ {i} :
    msg[k].deviceId = msg[i].deviceId =>
      (Body(msg[k]) = Body(msg[i]) \/ out[k].outcome = "rejected-malformed")

\* C13: telemetry handling is idempotent and last-write-wins. After the same
\* valid telemetry message has been processed twice (or more often) for a
\* registered device, with no other message written for that device, the
\* device is 'online', its battery is the one of the message, its last-seen
\* is the time of one of the processings and no crash or panic record
\* exists; every status update overwrites last-seen with the time of its own
\* processing, so the processing of a message that was received after an
\* earlier processing had read the clock leaves the newer time.
C13_TelemetryIdempotent ==
  /\ [](\A i, j \in Msgs : (Replayed(i, j) /\ OnlyReplays(i)) =>
          LET d == devices[msg[i].deviceId] IN
            /\ d.status = "online"
            /\ \E k \in Msgs : Body(msg[k]) = Body(msg[i]) /\ d.last_seen = loc[k].stamp
            /\ d.battery_level = msg[i].battery_level
            /\ \A e \in crash_events \cup panic_events : e.device_id # msg[i].deviceId)
  /\ [][\A j \in Msgs : WritesStatus(j) =>
          /\ devices'[msg[j].deviceId].last_seen = loc[j].stamp
          /\ \A i \in Msgs \ {j} :
               (hpc[i] = "done" /\ out[i].outcome = "processed"
                  /\ msg[j].timestamp > loc[i].stamp)
                 => devices'[msg[j].deviceId].last_seen > loc[i].stamp]_vars

\* the same telemetry message with a battery level has been processed twice,
\* the second time after the first had finished
C13_Witness ==
  \E i, j \in Msgs :
    /\ Replayed(i, j) /\ OnlyReplays(i) /\ msg[i].battery_level = 100
    /\ msg[j].timestamp > loc[i].stamp
    /\ devices[msg[i].deviceId].last_seen = loc[j].stamp

\* C14: every step of the handler of a telemetry message leaves the crash and
\* panic records and every other device untouched, and changes its own
\* device in one of two ways only: the status update sets status 'online' and
\* the last-seen read for this processing, the battery update sets the
\* battery level of the message. The handler gets past the status update only
\* with that write done, reaches the battery update only for a message that
\* carries a battery level, and ends as processed only with its last write done.
C14_TelemetryFrame ==
  [][\A i \in Msgs :
       (hpc'[i] # hpc[i] /\ msg'[i].cls = "telemetry") =>
         /\ UNCHANGED <<crash_events, panic_events>>
         /\ DOMAIN devices' = DOMAIN devices
         /\ \A d \in DOMAIN devices : d # msg'[i].deviceId => devices'[d] = devices[d]
         /\ msg'[i].deviceId \in DOMAIN devices =>
              LET old == devices[msg'[i].deviceId]
                  new == devices'[msg'[i].deviceId]
                  statusWritten == new = [old EXCEPT !.status = "online",
                                                     !.last_seen = loc[i].stamp]
                  batteryWritten == new = [old EXCEPT !.battery_level = msg[i].battery_level]
              IN /\ \/ new = old
                    \/ hpc[i] = "updStatus" /\ statusWritten /\ loc[i].stamp > msg[i].timestamp
                    \/ hpc[i] = "updBattery" /\ batteryWritten
                 /\ hpc'[i] = "updBattery" => (statusWritten /\ msg[i].battery_level # NULL)
                 /\ (hpc'[i] = "done" /\ out'[i].outcome = "processed") =>
                      IF msg[i].battery_level = NULL
                        THEN hpc[i] = "updStatus" /\ statusWritten
                        ELSE hpc[i] = "updBattery" /\ batteryWritten]_vars

\* a telemetry message without a battery level has been processed for a
\* device whose stored battery level came from an earlier message
C14_Witness ==
  \E i, j \in Msgs :
    /\ msg[i].cls = "telemetry" /\ msg[i].battery_level = 80 /\ out[i].outcome = "processed"
    /\ msg[j].cls = "telemetry" /\ msg[j].battery_level = NULL /\ out[j].outcome = "processed"
    /\ msg[j].deviceId = msg[i].deviceId /\ msg[j].timestamp > loc[i].stamp
    /\ devices[msg[j].deviceId].battery_level = 80
    /\ devices[msg[j].deviceId].last_seen = loc[j].stamp

\* the transaction of handler i commits in this step
CommitsNow(i) == tx[i].state # "committed" /\ tx'[i].state = "committed"

\* C15: the commit of a panic transaction makes exactly one new panic record
\* (of this event and device) and the new last-seen of the device visible in
\* the same step, and changes nothing else: the status and every other field
\* of the device, the other devices and the crash records stay as they were;
\* no other step of a panic handler changes a table.
C15_PanicCommit ==
  [][\A i \in Msgs : (msg'[i].cls = "panic" /\ hpc'[i] # hpc[i]) =>
       IF CommitsNow(i)
         THEN /\ \E r \in panic_events' :
                   /\ r \notin panic_events /\ r.id = i /\ r.device_id = msg[i].deviceId
                   /\ panic_events' = panic_events \cup {r}
              /\ Cardinality(panic_events') = Cardinality(panic_events) + 1
              /\ devices' = [devices EXCEPT ![msg[i].deviceId].last_seen = loc[i].stamp]
              /\ devices'[msg[i].deviceId].status = devices[msg[i].deviceId].status
              /\ devices'[msg[i].deviceId].last_seen # devices[msg[i].deviceId].last_seen
              /\ crash_events' = crash_events
         ELSE UNCHANGED <<devices, crash_events, panic_events>>]_vars

\* a panic event has committed for a device that a crash event had put in
\* status 'error', and the device is still in status 'error'
C15_Witness ==
  \E i, j \in Msgs :
    /\ msg[i].cls = "crash" /\ tx[i].state = "committed"
    /\ msg[j].cls = "panic" /\ tx[j].state = "committed"
    /\ msg[j].deviceId = msg[i].deviceId
    /\ loc[j].stamp > loc[i].stamp
    /\ devices[msg[j].deviceId].status = "error"
    /\ devices[msg[j].deviceId].last_seen = loc[j].stamp
    /\ Cardinality({r \in panic_events : r.id = j}) = 1

\* C16: when the crash or panic transaction of a message fails (no pool
\* client, or BEGIN, INSERT, UPDATE or COMMIT fails and the transaction is
\* rolled back), its handler ends in the terminal state persistence-failed
\* with the error logged, no notification payload and no record of the event;
\* a handler that has ended never runs again, and a transaction that was
\* rolled back is never started a second time.
C16_NoRetry ==
  /\ [](\A i \in Msgs :
          (tx[i].state = "rolledback" \/ out[i].outcome = "persistence-failed") =>
            /\ IsCritical(i)
            /\ hpc[i] = "done"
            /\ out[i].outcome = "persistence-failed" /\ out[i].error # "none"
            /\ out[i].payload = 0
            /\ ~HasCrash(i) /\ ~HasPanic(i))
  /\ [][\A i \in Msgs :
          /\ hpc[i] = "done" =>
               (hpc'[i] = "done" /\ tx'[i] = tx[i] /\ out'[i] = out[i] /\ msg'[i] = msg[i])
          /\ tx[i].state = "rolledback" => tx'[i] = tx[i]]_vars

\* a crash transaction has failed at COMMIT and a panic transaction at its
\* INSERT; both handlers have ended as persistence-failed
C16_Witness ==
  \E i, j \in Msgs :
    /\ msg[i].cls = "crash" /\ tx[i].state = "rolledback" /\ tx[i].cause = "CommitError"
    /\ msg[j].cls = "panic" /\ tx[j].state = "rolledback" /\ tx[j].cause = "InsertError"
    /\ out[i].outcome = "persistence-failed" /\ out[j].outcome = "persistence-failed"

\* the processing states of a crash message, in order
Stage(pc) ==
  CASE pc = "idle" -> 0 [] pc = "lookup" -> 1 [] pc = "begin" -> 2 [] pc = "insert" -> 3
    [] pc = "update" -> 4 [] pc = "commit" -> 5 [] pc = "rollback" -> 6
    [] pc = "lookup2" -> 7 [] pc = "contacts" -> 8 [] OTHER -> 9

\* C17: a crash message moves forward through its processing states only. It
\* is classified only after it passed the validator for a registered device,
\* its transaction starts only after it was classified, the lookup of the
\* emergency contacts and the notification payload come only after the
\* commit, and a payload exists only for an event whose record is stored and
\* carries the id of that record.
C17_CrashStagesInOrder ==
  /\ [][\A i \in Msgs : (msg'[i].cls = "crash" /\ hpc'[i] # hpc[i]) =>
          Stage(hpc'[i]) > Stage(hpc[i])]_vars
  /\ [](\A i \in Msgs : IsCrash(i) =>
          /\ loc[i].severity # "none" =>
               (~Incomplete(msg[i]) /\ msg[i].lat <= 90 /\ Registered(msg[i].deviceId)
                /\ hpc[i] \notin {"idle", "lookup"})
          /\ tx[i].state # "none" =>
               (loc[i].severity \in EventSeverity /\ loc[i].injury_probability # NULL)
          /\ (hpc[i] \in {"lookup2", "contacts"} \/ out[i].payload # 0) =>
               (tx[i].state = "committed" /\ HasCrash(i))
          /\ out[i].payload # 0 =>
               /\ out[i].outcome = "notification-prepared"
               /\ \E r \in crash_events :
                    /\ r.id = out[i].payload /\ r.device_id = msg[i].deviceId
                    /\ r.severity = loc[i].severity)

\* the notification payload of a crash event has been assembled and carries
\* the id of the stored record
C17_Witness ==
  \E i \in Msgs : /\ IsCrash(i) /\ out[i].outcome = "notification-prepared"
                  /\ out[i].payload = i /\ HasCrash(i) /\ loc[i].severity = "critical"

\* every other open transaction is for another device than the one of handler i
OthersOnOtherDevices(i) ==
  \A j \in Msgs \ {i} : tx[j].state = "open" => msg[j].deviceId # msg[i].deviceId

\* C18: the transaction scope is per event. While the process runs, no step
\* of a crash or panic transaction waits for a transaction of another
\* device: BEGIN, the INSERT and COMMIT can always go on, and the UPDATE of
\* the device row can go on whenever every other open transaction is for
\* another device.
C18_PerEventTransactions ==
  \A i \in Msgs : (IsCritical(i) /\ ~exited) =>
    /\ hpc[i] = "begin" => ENABLED TxBegin(i, TRUE)
    /\ hpc[i] = "insert" => ENABLED TxInsert(i, TRUE)
    /\ (hpc[i] = "update" /\ OthersOnOtherDevices(i)) => ENABLED TxUpdate(i, TRUE)
    /\ hpc[i] = "commit" => ENABLED TxCommit(i, TRUE)

\* two transactions for different devices were open at the same time and one
\* has committed while the other, which had started first and holds its
\* device row, is still open
C18_Witness ==
  \E i, j \in Msgs :
    /\ IsCritical(i) /\ IsCritical(j) /\ msg[i].deviceId # msg[j].deviceId
    /\ tx[i].state = "committed"
    /\ tx[j].state = "open" /\ tx[j].upd
    /\ loc[j].stamp < loc[i].stamp

\* the receive callback cannot parse the topic or the payload of message i
Unparsable(m) == m.cls # "none" /\ (m.cls \notin {"telemetry", "crash", "panic"} \/ ~m.json)

\* C19: a message whose topic names no known message class, or whose payload
\* cannot be deserialized, is dropped inside the transport client: the error
\* stays in the receive callback, no handler runs for it (no validation, no
\* lookup, no transaction), and the step that drops it changes nothing
\* besides the clock and its own outcome, so the listeners, the broker
\* session, the pool and the other handlers go on as before.
C19_UnparsableDropped ==
  /\ [](\A i \in Msgs : Unparsable(msg[i]) =>
          /\ hpc[i] = "done"
          /\ out[i].outcome = "dropped-in-transport"
          /\ out[i].error \in {"UnknownTopic", "SyntaxError"}
          /\ ~out[i].escaped
          /\ loc[i] = NoLoc /\ tx[i] = NoTx /\ out[i].payload = 0)
  /\ [][\A i \in Msgs : (hpc'[i] # hpc[i] /\ Unparsable(msg'[i])) =>
          /\ UNCHANGED <<devices, crash_events, panic_events, pool, checkedOut, listeners,
                         client, sess, reconnectTimer, mainPc, shutPc, exited>>
          /\ \A j \in Msgs \ {i} :
               /\ msg'[j] = msg[j] /\ hpc'[j] = hpc[j] /\ loc'[j] = loc[j]
               /\ tx'[j] = tx[j] /\ out'[j] = out[j]]_vars

\* a message on an unknown topic has been dropped and a crash message that
\* arrived after it has been processed to the end; a payload that is not
\* JSON can be dropped as well
C19_Witness ==
  \E i, j \in Msgs :
    /\ msg[i].cls = "status" /\ out[i].error = "UnknownTopic"
    /\ msg[j].cls = "crash" /\ msg[j].json /\ msg[j].timestamp > msg[i].timestamp
    /\ out[j].outcome = "notification-prepared"

\* connect() of broker client k has run to its end without an error, and
\* disconnect() has not ended the client
ConnectCompleted(k) == sess[k].pc = "done" /\ sess[k].state # "ended"

Tier(severity) ==
  CASE severity = "low" -> 0 [] severity = "medium" -> 1
    [] severity = "high" -> 2 [] severity = "critical" -> 3

\* the classifier has been called
Classified == ret.fn = "classify"

\* C21: over any two calls of the classifier, a larger impact force at the
\* same tilt (present or absent) never gives a lower tier, and a larger tilt
\* at the same impact force never gives a lower tier.
C21_Monotonic ==
  [][(Classified /\ Classified') =>
       /\ (ret.impact_force # NULL /\ ret.impact_force <= ret'.impact_force
             /\ ret.tilt_angle = ret'.tilt_angle)
            => Tier(ret.severity) <= Tier(ret'.severity)
       /\ (ret.tilt_angle # NULL /\ ret.tilt_angle <= ret'.tilt_angle
             /\ ret.impact_force = ret'.impact_force)
            => Tier(ret.severity) <= Tier(ret'.severity)]_vars

\* an impact force of 1000 G with tilt 180 has been classified critical
C21_Witness ==
  /\ Classified /\ ret.impact_force = 10000 /\ ret.tilt_angle = 180
  /\ ret.severity = "critical"

\* input x is present and over the threshold
Over(x, threshold) == x # NULL /\ x > threshold

TriggersNothing(x) == x = NULL \/ x <= 30

Term(x, perPoint, cap) ==
  IF x = NULL THEN 0 ELSE IF perPoint * x > 30 * cap THEN 30 * cap ELSE perPoint * x

\* C25: the injury probability of every call is the sum of the three terms
\* min(impactForce/10*40, 40), min(tiltAngle/90*30, 30), min(speed/100*30, 30),
\* each capped before summing and 0 for an absent input, rounded to the
\* nearest integer and capped at 100; 9.2 G, tilt 20, speed 60 give 61 and
\* 1.5 G, tilt 10, speed 20 give 15.
C25_Formula ==
  Classified =>
    LET f == ret.impact_force
        t == ret.tilt_angle
        v == ret.pre_event_speed_avg
        p == ret.injury_probability
        sum == Term(f, 12, 40) + Term(t, 10, 30) + Term(v, 9, 30)
    IN /\ 30 * p - 15 <= sum /\ sum < 30 * p + 15
       /\ (f = 92 /\ t = 20 /\ v = 60) => p = 61
       /\ (f = 15 /\ t = 10 /\ v = 20) => p = 15

\* 9.2 G, tilt 20 and speed 60 have given 61
C25_Witness ==
  /\ Classified /\ ret.impact_force = 92 /\ ret.tilt_angle = 20
  /\ ret.pre_event_speed_avg = 60 /\ ret.injury_probability = 61

\* this step is a call of markCrashNotificationsSent or markPanicNotificationsSent
MarkStep ==
  /\ ret'.fn \in {"markCrashNotificationsSent", "markPanicNotificationsSent"}
  /\ UNCHANGED handlerVars
  /\ ret' # ret \/ crash_events' # crash_events \/ panic_events' # panic_events

\* the events of the kind the call is about
MarkedTable(ce, pe) == IF ret'.fn = "markCrashNotificationsSent" THEN ce ELSE pe

\* the events of the other kind
OtherTable(ce, pe) == IF ret'.fn = "markCrashNotificationsSent" THEN pe ELSE ce

\* row r with the notification-sent flag set and the attempt counter given
Marked(r) ==
  [r EXCEPT !.emergency_contacts_notified = TRUE, !.notification_attempts = ret'.attempts]

\* what every call leaves alone, and what a call on an unknown id or a call
\* that fails does
MarkFrame ==
  LET before == MarkedTable(crash_events, panic_events)
      known == \E r \in before : r.id = ret'.eventId
  IN /\ OtherTable(crash_events', panic_events') = OtherTable(crash_events, panic_events)
     /\ devices' = devices
     /\ known => ret'.error # "NotFound"
     /\ ~known => ret'.error # "none"
     /\ ret'.error # "none" => UNCHANGED <<crash_events, panic_events>>

\* C27 as stated: a call of markNotificationsSent on an existing crash or
\* panic event sets the notification-sent flag and the attempt counter of
\* that event and changes no other field of it and no other event; a call on
\* an unknown id changes nothing and throws.
C27_MarkChangesNothingElse ==
  [][MarkStep =>
       /\ MarkFrame
       /\ ret'.error = "none" =>
            MarkedTable(crash_events', panic_events') =
              {IF r.id = ret'.eventId THEN Marked(r) ELSE r :
                 r \in MarkedTable(crash_events, panic_events)}]_vars

\* C27, amended: as above, except that the update of a crash event also
\* refreshes the updated_at of that event (the BEFORE UPDATE trigger of
\* crash_events); a panic event has no such column.
C27_MarkFrameEffect ==
  [][MarkStep =>
       /\ MarkFrame
       /\ ret'.error = "none" =>
            MarkedTable(crash_events', panic_events') =
              {IF r.id = ret'.eventId
                 THEN IF ret'.fn = "markCrashNotificationsSent"
                        THEN [Marked(r) EXCEPT !.updated_at = now]
                        ELSE Marked(r)
                 ELSE r : r \in MarkedTable(crash_events, panic_events)}]_vars

\* a stored crash event has been marked, which has moved its updated_at, while
\* a second stored event is unmarked
C27_Witness ==
  /\ ret.fn = "markCrashNotificationsSent" /\ ret.error = "none"
  /\ \E r \in crash_events :
       /\ r.id = ret.eventId /\ r.emergency_contacts_notified
       /\ r.notification_attempts = ret.attempts
       /\ r.updated_at > loc[r.id].stamp
  /\ \E r \in crash_events \cup panic_events :
       r.id # ret.eventId /\ ~r.emergency_contacts_notified

\* a list query has been answered
Listed == ret.fn \in {"getCrashEvents", "getPanicEvents"}

\* C26: the page a list query for crash or panic events returns never has
\* more than 100 rows, whatever limit and offset the request carries and
\* however many events are stored, and its rows are in the order of their
\* event timestamps, newest first.
C26_PageCapped ==
  Listed =>
    /\ Len(ret.data) <= 100
    /\ \A k \in 1..(Len(ret.data) - 1) : ret.data[k] >= ret.data[k + 1]
    /\ ret.status # 200 => ret.data = <<>>

\* a query with limit 100 over more than 100 stored crash events has
\* returned a full page that spans several event timestamps
C26_Witness ==
  /\ ret.fn = "getCrashEvents" /\ ret.limit = 100 /\ Cardinality(crash_events) > 100
  /\ Len(ret.data) = 100 /\ ret.data[1] > ret.data[100]

\* the message class a topic names
OnTopicOf(topic, t) ==
  IF t = "telemetry"
    THEN Len(topic) = 3 /\ topic[1] = "v1" /\ topic[3] = "telemetry"
    ELSE Len(topic) = 4 /\ topic[1] = "v1" /\ topic[3] = "events" /\ topic[4] = t

\* message i has been emitted to the listeners
Emitted(i) == msg[i].cls # "none" /\ out[i].outcome # "dropped-in-transport"

\* C28: every message that is emitted is emitted as the one class its topic
\* names, with the second segment of the topic as its device id; what only
\* one class of handler does happens only for messages on the topic of that
\* class: a crash record and a classification for a crash topic, a panic
\* record for a panic topic, the telemetry updates for a telemetry topic.
C28_DispatchByTopic ==
  \A i \in Msgs : Emitted(i) =>
    /\ \E t \in {"telemetry", "crash", "panic"} : OnTopicOf(msg[i].topic, t)
    /\ \A t \in {"telemetry", "crash", "panic"} :
         OnTopicOf(msg[i].topic, t) => msg[i].cls = t
    /\ msg[i].deviceId = msg[i].topic[2]
    /\ (HasCrash(i) \/ loc[i].severity # "none") => OnTopicOf(msg[i].topic, "crash")
    /\ HasPanic(i) => OnTopicOf(msg[i].topic, "panic")
    /\ hpc[i] \in {"updStatus", "updBattery"} => OnTopicOf(msg[i].topic, "telemetry")
    /\ out[i].outcome = "processed" => OnTopicOf(msg[i].topic, "telemetry")

\* a crash message of the device named telemetry has gone to the crash
\* handler and a crash message of a registered device has been stored
C28_Witness ==
  \E i, j \in Msgs :
    /\ msg[i].topic = <<"v1", "telemetry", "events", "crash">>
    /\ msg[i].cls = "crash" /\ msg[i].deviceId = "telemetry"
    /\ out[i].outcome = "rejected-unknown-device"
    /\ HasCrash(j) /\ msg[j].topic = <<"v1", "d1", "events", "crash">>

\* C29: the event timestamp of every stored crash or panic record is the
\* timestamp of the body of its message, and a message whose body has no
\* timestamp is rejected by the validator.
C29_PayloadTimestampKept ==
  /\ \A r \in crash_events \cup panic_events :
       r.event_timestamp = msg[r.id].bodyTimestamp
  /\ \A i \in Msgs :
       (Emitted(i) /\ msg[i].bodyTimestamp = NULL /\ hpc[i] = "done") =>
         out[i].outcome = "rejected-malformed"

\* C30: as long as no shutdown has begun, a broker client that holds a
\* subscription finds the three handlers registered, and no message is
\* dropped for lack of a handler.
C30_HandlersBeforeMessages ==
  /\ (shutPc = "none" /\ \E k \in ClientIds : sess[k].subs # {}) => listeners = Topics
  /\ \A i \in Msgs : (msg[i].cls \in {"crash", "panic"} /\ mainPc # "running") =>
       out[i].outcome # "dropped"

\* broker client k exists and the library keeps its session up or brings it
\* back: connecting, connected, closed by the broker, or reconnecting
Live(k) == sess[k].state \in {"connecting", "open", "kicked", "lost"}

\* connect() creates broker client k in this step
Creates(k) == sess[k].state = "none" /\ sess'[k].state = "connecting"

\* C31: at most one broker client is live at any time, and connect() creates
\* a broker client only when no client created earlier is still open or
\* reconnecting.
C31_SingleSession ==
  /\ [](Cardinality({k \in ClientIds : Live(k)}) <= 1)
  /\ [][\A k \in ClientIds : Creates(k) => \A j \in ClientIds \ {k} : ~Live(j)]_vars

\* disconnect() has run to its end
Disconnected == shutPc \in {"disconnected", "closingDb", "done"}

\* C32: once disconnect() has completed, no reconnect timer is pending, no
\* broker client is live or still subscribing, and no step creates a broker
\* client.
C32_StaysDisconnected ==
  /\ [](Disconnected =>
          /\ reconnectTimer # "pending"
          /\ \A k \in ClientIds : ~Live(k) /\ sess[k].pc \notin Topics)
  /\ [][Disconnected =>
          \A k \in ClientIds : ~Creates(k)]_vars

\* handlers i and j have processed two telemetry messages of one device that
\* both carry a battery level
BothProcessed(i, j) ==
  /\ i # j /\ msg[i].cls = "telemetry" /\ msg[j].cls = "telemetry"
  /\ msg[i].deviceId = msg[j].deviceId
  /\ msg[i].battery_level # NULL /\ msg[j].battery_level # NULL
  /\ out[i].outcome = "processed" /\ out[j].outcome = "processed"

\* C33: after two telemetry messages of one device have been processed, the
\* stored last-seen and the stored battery level of the device come from the
\* same message.
C33_StateOfOneMessage ==
  \A i, j \in Msgs : BothProcessed(i, j) =>
    \E k \in {i, j} :
      /\ devices[msg[k].deviceId].last_seen = loc[k].stamp
      /\ devices[msg[k].deviceId].battery_level = msg[k].battery_level

\* C34: every stored crash or panic record names a device of the registry.
C34_EventsOfRegisteredDevices ==
  \A r \in crash_events \cup panic_events : r.device_id \in DOMAIN devices

\* the pool client of the transaction of handler i is checked out
HoldsClient(i) == tx[i].state \in {"acquired", "open"}

\* C35: the pool client of every transaction is released exactly once: not
\* while the transaction is running, and once when withTransaction has
\* returned or thrown, after a commit as well as after a rollback and after
\* a failure of BEGIN, COMMIT or ROLLBACK itself; a handler that has finished
\* holds no client.
C35_ReleasedOnce ==
  \A i \in Msgs :
    /\ HoldsClient(i) => tx[i].rel = 0
    /\ tx[i].state \in {"committed", "rolledback"} => tx[i].rel = 1
    /\ tx[i].state = "none" => tx[i].rel = 0
    /\ hpc[i] = "done" => ~HoldsClient(i)

\* one transaction has ended with a failed ROLLBACK after a failed COMMIT,
\* another one with a commit, and both clients are back in the pool
C35_Witness ==
  \E i, j \in Msgs :
    /\ tx[i].cause = "CommitError" /\ tx[i].thrown = "RollbackError" /\ tx[i].rel = 1
    /\ hpc[i] = "done"
    /\ tx[j].state = "committed" /\ tx[j].rel = 1

\* C36: however many signals arrive, the broker client and the pool are each
\* ended at most once, and a shutdown in which neither client.end() nor a
\* query fails ends without a failure.
C36_ShutdownOnce ==
  /\ shut2.clientEnds <= 1
  /\ shut2.poolEnds <= 1
  /\ shutPc # "failed" /\ shut2.pc # "failed"

\* the rows of the table a list response was read from that user u owns
OwnedBy(fn, u) ==
  {r \in (IF fn = "getCrashEvents" THEN crash_events ELSE panic_events) : r.user_id = u}

\* C37: a list response holds no more events than the user of the token
\* owns, and a get or update request for a stored crash event is answered
\* 200 when the user of the token owns the event and 403 when another user
\* owns it.
C37_OwnerOnly ==
  /\ (ret.fn \in {"getCrashEvents", "getPanicEvents"} /\ ret.status = 200) =>
       Len(ret.data) <= Cardinality(OwnedBy(ret.fn, ret.user.userId))
  /\ api.status \in {200, 403} =>
       \A r \in crash_events :
         r.id = api.eventId => (api.status = 200 <=> r.user_id = api.user.userId)

====
